---- MODULE Spec2Model ----
(***************************************************************************)
(* Bearer-token verification of parse-dmarc's MCP server (package oauth):  *)
(* Config, the verifiers (OIDC, introspection, caching), the bearer        *)
(* middleware and RequireScopes as state machines over requests.           *)
(*                                                                         *)
(* The specifications share the variables below:                           *)
(*   Spec        concurrent callers of CachingVerifier.Verify over an      *)
(*               arbitrary wrapped TokenVerifier, with a clock;            *)
(*   SpecOIDC    concurrent requests through BearerAuthMiddleware.Wrap     *)
(*               whose verifier is one OIDCVerifier instance;              *)
(*   SpecMW      requests through BearerAuthMiddleware.Wrap over an        *)
(*               arbitrary TokenVerifier;                                  *)
(*   SpecNew     requests through Wrap to the strategy that NewVerifier    *)
(*               chose for the Config, OIDC or introspection;              *)
(*   SpecScopes  requests through RequireScopes;                           *)
(*   SpecConfig  calls of Config.Validate.                                 *)
(* A specification leaves the variables of the other layers at their       *)
(* initial values.                                                         *)
(***************************************************************************)
EXTENDS Integers, Sequences, FiniteSets, TLC

VARIABLES
    pc,          \* per request/caller: the place in the code it has reached
    tok,         \* per request/caller: the token string passed to Verify
    info,        \* per request/caller: the local *TokenInfo (NoInfo = nil)
    ev,          \* what the latest step returned or did (NoEv after a clock tick)
    now,         \* CachingVerifier: time.Now(), in clock ticks
    ttl,         \* CachingVerifier.ttl, in clock ticks
    cache,       \* CachingVerifier.cache: token string -> cacheEntry
    lastDone,    \* history: per token, how the latest undisturbed Verify call ended
    req,         \* per request: path, Authorization header, extracted token, verifier's answer
    resp,        \* per request: what Wrap has done so far (denial written, next handler run)
    once,        \* OIDCVerifier.initOnce: "new", "running" (f is executing) or "done"
    initError,   \* OIDCVerifier.initError: "nil" or "failed"
    verifier,    \* OIDCVerifier.verifier: "nil" or "set"
    discoveries, \* history: how many times oidc.NewProvider has been called
    config,      \* the *Config the constructors were given
    metadataURL, \* BearerAuthMiddleware.metadataURL
    built,       \* the TokenVerifier that NewVerifier returned
    rs,          \* RequireScopes: the latest request it handled and what it did
    val,         \* Config.Validate: the latest Config it was called on and its error
    claimed,     \* per request: the claims its verifier read for the token (history)
    ir,          \* per request: the introspection HTTP calls made and the latest outcome
    ret,         \* per request: where its CachingVerifier.Verify call is, and what the
                 \* wrapped verifier returned to it
    entered,     \* history, per request: how often each Verify method was entered
    fn,          \* the latest call of a function of the package: arguments and result
    mh,          \* MetadataHandler: the latest request it handled and what it did
    cancelled,   \* per request/caller: the Done channel of its context is closed
    heap,        \* the TokenInfo objects allocated so far: address -> contents
    held,        \* per caller: the *TokenInfo its latest Verify call returned (0 = nil)
    verifiedAt   \* history, per token: when its latest successful wrapped
                 \* verification returned

cvVars == <<tok, ev, now, ttl, cache, lastDone>>
mwVars == <<req, resp, ret>>
oidcVars == <<once, initError, verifier, discoveries>>
ctorVars == <<config, metadataURL, built>>
\* what no handler assigns after construction
ivVars == <<claimed, ir>>
\* what the handlers of the other layers leave alone
pureVars == <<rs, val, fn, mh>>
\* the request contexts, the TokenInfo objects behind the pointers, and the
\* instants of the verifications
auxVars == <<cancelled, heap, held, verifiedAt>>
extVars == <<ctorVars, pureVars, ivVars, entered, auxVars>>
vars == <<pc, info, cvVars, mwVars, oidcVars, extVars>>

-----------------------------------------------------------------------------
(* Bounds of the model                                                     *)

\* concurrent callers / in-flight requests
Procs == {"r1", "r2"}
\* raw token strings (sequences of characters) presented to the cache-wrapped verifier
Tokens == {<<"x">>, <<"x", "x">>}
\* clock ticks per second: time.Now() is finer than the whole seconds of ExpiresAt
TicksPerSec == 2
\* the clock runs from 0 to MaxTime ticks
MaxTime == 3
\* largest ExpiresAt (Unix seconds) a wrapped verifier reports
MaxExp == 2
\* largest configured TTL, in ticks
MaxTTL == 3

\* 5 * time.Minute, in seconds
FiveMinutes == 300

-----------------------------------------------------------------------------
(* TokenInfo and the wrapped verifier                                      *)

\* a nil *TokenInfo
NoInfo ==
    [Token |-> <<>>, Subject |-> "", ClientID |-> "", Issuer |-> "", IssuedAt |-> 0,
     ExpiresAt |-> 0, Audience |-> <<>>, Scopes |-> <<>>]

\* ExpiresAt is an int64: 0 means unknown, and a server may send a negative one
ExpChoices == -1 .. MaxExp

\* The TokenInfo values a wrapped verifier may return for token t. Token records
\* the token string the verification was made for (not a field of the Go struct).
TokenInfos(t) ==
    [Token : {t}, Subject : {"alice"}, ClientID : {"cli"}, Issuer : {"https://idp.example.com"},
     IssuedAt : {1}, ExpiresAt : ExpChoices, Audience : {<<>>}, Scopes : {<<>>}]

\* the errors of OIDCVerifier.Verify after a successful init: the library's
\* verification (signature, expiry, issuer), the claims, the audience, the scopes
VerifyErrors ==
    {"token verification failed",
     "failed to parse token claims",
     "token audience does not match expected audience",
     "token missing required scopes"}

\* TokenVerifier.Verify(ctx, token): an arbitrary implementation returns
\* (info, nil) or (nil, err); why is the error's text
WrappedOutcomes(t) ==
    {[err |-> TRUE, why |-> w, info |-> NoInfo] : w \in VerifyErrors} \cup
    {[err |-> FALSE, why |-> "", info |-> i] : i \in TokenInfos(t)}

\* time.Unix(sec, 0) on the clock of now
Unix(sec) == sec * TicksPerSec

-----------------------------------------------------------------------------
(* CachingVerifier                                                         *)

\* mutant: only a negative ttl becomes the default
NewCachingVerifierTTL_ZeroKept(cfg) ==
    IF cfg < 0 THEN FiveMinutes * TicksPerSec ELSE cfg

\* NewCachingVerifier: a ttl <= 0 becomes the 5 minute default
NewCachingVerifierTTL(cfg) ==
    IF cfg <= 0 THEN FiveMinutes * TicksPerSec ELSE cfg

\* mutant: the token's own expiry is ignored
EntryExpiry_TTLOnly(t0, d, i) == t0 + d

\* mutant: Before and After confused, the later of the two instants is kept
EntryExpiry_Later(t0, d, i) ==
    LET expiresAt == t0 + d IN
    IF i.ExpiresAt > 0
    THEN (IF Unix(i.ExpiresAt) > expiresAt THEN Unix(i.ExpiresAt) ELSE expiresAt)
    ELSE expiresAt

\* mutant: a token that states its expiry is kept until then, whatever the TTL
EntryExpiry_TokenOnly(t0, d, i) ==
    IF i.ExpiresAt > 0 THEN Unix(i.ExpiresAt) ELSE t0 + d

\* the expiry of a new entry: the lesser of now + ttl and the token's own expiry
EntryExpiry(t0, d, i) ==
    LET expiresAt == t0 + d IN
    IF i.ExpiresAt > 0
    THEN (IF Unix(i.ExpiresAt) < expiresAt THEN Unix(i.ExpiresAt) ELSE expiresAt)
    ELSE expiresAt

\* mutant: the comparison is turned round
EntryFresh_Swapped(t0, ce) == ce.expiresAt < t0

\* time.Now().Before(ce.expiresAt)
EntryFresh(t0, ce) == t0 < ce.expiresAt

\* sync.Map Store and Delete
MapStore(m, k, v) == [x \in (DOMAIN m) \cup {k} |-> IF x = k THEN v ELSE m[x]]
MapDelete(m, k) == [x \in (DOMAIN m) \ {k} |-> m[x]]

NoEv == [kind |-> "none", tok |-> <<>>, info |-> NoInfo]
Ev(k, t, i) == [kind |-> k, tok |-> t, info |-> i]

\* the other callers that are inside Verify for token t
OthersInFlight(p, t) == {q \in Procs \ {p} : pc[q] # "idle" /\ tok[q] = t}

NotDone == [st |-> "none", at |-> 0, info |-> NoInfo]
Overlapped == [st |-> "mixed", at |-> 0, info |-> NoInfo]
\* How a call on t that ends now is remembered. Only a call that ran from its Load
\* to its return with no other call on t in flight counts as "the latest call on
\* t"; st is "ok" (it stored and returned i at time at) or "err".
Done(p, t, st, i) ==
    IF OthersInFlight(p, t) # {} THEN Overlapped
    ELSE IF lastDone[t].st = "mixed" THEN NotDone
    ELSE [st |-> st, at |-> IF st = "ok" THEN now ELSE 0, info |-> i]
\* a call on t that starts and does not end at once
Started(p, t) ==
    IF OthersInFlight(p, t) = {} THEN NotDone ELSE Overlapped

\* lines 298-306: Load, then either the hit, or the expired entry, or no entry
CVLoad(p, t) ==
    /\ pc[p] = "idle"
    /\ IF t \in DOMAIN cache
       THEN IF EntryFresh(now, cache[t])
            THEN /\ ev' = Ev("hit", t, cache[t].info)
                 /\ UNCHANGED <<pc, tok, lastDone>>
            ELSE /\ ev' = Ev("stale", t, NoInfo)
                 /\ pc' = [pc EXCEPT ![p] = "cv_delete"]
                 /\ tok' = [tok EXCEPT ![p] = t]
                 /\ lastDone' = [lastDone EXCEPT ![t] = Started(p, t)]
       ELSE /\ ev' = Ev("miss", t, NoInfo)
            /\ pc' = [pc EXCEPT ![p] = "cv_verify"]
            /\ tok' = [tok EXCEPT ![p] = t]
            /\ lastDone' = [lastDone EXCEPT ![t] = Started(p, t)]
    /\ UNCHANGED <<info, now, ttl, cache, mwVars, oidcVars, extVars>>

\* mutant: the expired entry is left in the map
CVDelete_Keep(p) ==
    /\ pc[p] = "cv_delete"
    /\ cache' = cache
    /\ pc' = [pc EXCEPT ![p] = "cv_verify"]
    /\ ev' = Ev("deleted", tok[p], NoInfo)
    /\ UNCHANGED <<tok, info, now, ttl, lastDone, mwVars, oidcVars, extVars>>

\* line 304: v.cache.Delete(token)
CVDelete(p) ==
    /\ pc[p] = "cv_delete"
    /\ cache' = MapDelete(cache, tok[p])
    /\ pc' = [pc EXCEPT ![p] = "cv_verify"]
    /\ ev' = Ev("deleted", tok[p], NoInfo)
    /\ UNCHANGED <<tok, info, now, ttl, lastDone, mwVars, oidcVars, extVars>>

\* mutant: negative caching, the failure is stored as an entry before the return
CVWrapped_NegativeCache(p) ==
    /\ pc[p] = "cv_verify"
    /\ \E o \in WrappedOutcomes(tok[p]) :
         IF o.err
         THEN /\ ev' = Ev("error", tok[p], NoInfo)
              /\ pc' = [pc EXCEPT ![p] = "idle"]
              /\ tok' = [tok EXCEPT ![p] = <<>>]
              /\ lastDone' = [lastDone EXCEPT ![tok[p]] = Done(p, tok[p], "err", NoInfo)]
              /\ cache' = MapStore(cache, tok[p],
                             [info |-> NoInfo, expiresAt |-> now + ttl, storedAt |-> now])
              /\ UNCHANGED info
         ELSE /\ ev' = Ev("verified", tok[p], o.info)
              /\ pc' = [pc EXCEPT ![p] = "cv_store"]
              /\ info' = [info EXCEPT ![p] = o.info]
              /\ UNCHANGED <<tok, lastDone, cache>>
    /\ UNCHANGED <<now, ttl, mwVars, oidcVars, extVars>>

\* lines 309-312: the wrapped verifier, and the return of its error
Wrapped(p) ==
    /\ pc[p] = "cv_verify"
    /\ \E o \in WrappedOutcomes(tok[p]) :
         IF o.err
         THEN /\ ev' = Ev("error", tok[p], NoInfo)
              /\ pc' = [pc EXCEPT ![p] = "idle"]
              /\ tok' = [tok EXCEPT ![p] = <<>>]
              /\ lastDone' = [lastDone EXCEPT ![tok[p]] = Done(p, tok[p], "err", NoInfo)]
              /\ UNCHANGED info
         ELSE /\ ev' = Ev("verified", tok[p], o.info)
              /\ pc' = [pc EXCEPT ![p] = "cv_store"]
              /\ info' = [info EXCEPT ![p] = o.info]
              /\ UNCHANGED <<tok, lastDone>>
    /\ UNCHANGED <<now, ttl, cache, mwVars, oidcVars, ctorVars, pureVars, ivVars,
                   entered, cancelled, heap, held>>

\* the same step, with no note taken of its instant
CVWrapped(p) == Wrapped(p) /\ UNCHANGED verifiedAt

\* the same step, with the instant of a successful return noted for the token
CVWrappedAt(p) ==
    /\ Wrapped(p)
    /\ verifiedAt' = IF pc'[p] = "cv_store"
                     THEN MapStore(verifiedAt, tok[p], now)
                     ELSE verifiedAt

\* mutant: LoadOrStore in place of Store, the first entry stays
CVStore_FirstWins(p) ==
    /\ pc[p] = "cv_store"
    /\ cache' = IF tok[p] \in DOMAIN cache
                THEN cache
                ELSE MapStore(cache, tok[p],
                        [info |-> info[p],
                         expiresAt |-> EntryExpiry(now, ttl, info[p]),
                         storedAt |-> now])
    /\ ev' = Ev("fresh", tok[p], info[p])
    /\ pc' = [pc EXCEPT ![p] = "idle"]
    /\ tok' = [tok EXCEPT ![p] = <<>>]
    /\ info' = [info EXCEPT ![p] = NoInfo]
    /\ lastDone' = [lastDone EXCEPT ![tok[p]] = Done(p, tok[p], "ok", info[p])]
    /\ UNCHANGED <<now, ttl, mwVars, oidcVars, extVars>>

\* lines 316-329: the entry's expiry, Store, and the return of info
CVStore(p) ==
    /\ pc[p] = "cv_store"
    /\ cache' = MapStore(cache, tok[p],
                   [info |-> info[p],
                    expiresAt |-> EntryExpiry(now, ttl, info[p]),
                    storedAt |-> now])
    /\ ev' = Ev("fresh", tok[p], info[p])
    /\ pc' = [pc EXCEPT ![p] = "idle"]
    /\ tok' = [tok EXCEPT ![p] = <<>>]
    /\ info' = [info EXCEPT ![p] = NoInfo]
    /\ lastDone' = [lastDone EXCEPT ![tok[p]] = Done(p, tok[p], "ok", info[p])]
    /\ UNCHANGED <<now, ttl, mwVars, oidcVars, extVars>>

\* mutant: a janitor sweeps the entries that have expired as the clock advances
Tick_Sweep ==
    /\ now < MaxTime
    /\ now' = now + 1
    /\ ev' = NoEv
    /\ cache' = [t \in {u \in DOMAIN cache : EntryFresh(now + 1, cache[u])} |-> cache[t]]
    /\ UNCHANGED <<pc, tok, info, ttl, lastDone, mwVars, oidcVars, extVars>>

\* the clock advances
Tick ==
    /\ now < MaxTime
    /\ now' = now + 1
    /\ ev' = NoEv
    /\ UNCHANGED <<pc, tok, info, ttl, cache, lastDone, mwVars, oidcVars, extVars>>

-----------------------------------------------------------------------------
(* Config and the constructors                                             *)

\* const MetadataPath
MetadataPath == "/.well-known/oauth-protected-resource"

\* strings.HasSuffix, strings.TrimSuffix, strings.Contains on strings
HasSuffix(str, suf) ==
    Len(str) >= Len(suf) /\ SubSeq(str, Len(str) - Len(suf) + 1, Len(str)) = suf
TrimSuffix(str, suf) ==
    IF HasSuffix(str, suf) THEN SubSeq(str, 1, Len(str) - Len(suf)) ELSE str
Contains(str, sub) ==
    \E i \in 1 .. (Len(str) - Len(sub) + 1) : SubSeq(str, i, i + Len(sub) - 1) = sub

\* mutant: every trailing slash is removed
RECURSIVE GetMetadataURL_TrimAll(_)
GetMetadataURL_TrimAll(resourceServerURL) ==
    IF HasSuffix(resourceServerURL, "/")
    THEN GetMetadataURL_TrimAll(SubSeq(resourceServerURL, 1, Len(resourceServerURL) - 1))
    ELSE resourceServerURL \o MetadataPath

\* GetMetadataURL: one trailing slash removed, then the well-known path
GetMetadataURL(resourceServerURL) ==
    LET base == TrimSuffix(resourceServerURL, "/") IN base \o MetadataPath

\* values of Config.ResourceServerURL: no, one and two trailing slashes
ResourceServerURLs ==
    {"https://mcp.example.com", "https://mcp.example.com/", "https://mcp.example.com//"}
\* values of Config.IntrospectionEndpoint at construction: unset, a URL, and a
\* string that url.Parse rejects
Endpoints == {"", "https://idp.example.com/introspect", ":8080/mcp"}

\* the Config of a running server, but for the two fields the constructors read
BaseConfig ==
    [Enabled |-> TRUE,
     Issuer |-> "https://idp.example.com",
     Audience |-> "https://mcp.example.com",
     ClientID |-> "mcp",
     ClientSecret |-> "s3cret",
     RequiredScopes |-> <<>>,
     IntrospectionEndpoint |-> "",
     ResourceServerURL |-> "https://mcp.example.com",
     ResourceName |-> "DMARC reports",
     ResourceDocumentation |-> ""]
CtorConfigs ==
    {[BaseConfig EXCEPT !.ResourceServerURL = u, !.IntrospectionEndpoint = e] :
        u \in ResourceServerURLs, e \in Endpoints}

\* an arbitrary TokenVerifier, NewOIDCVerifier(cfg), NewIntrospectionVerifier(cfg)
AnyVerifier == [kind |-> "any"]
NewOIDCVerifier(cfg) == [kind |-> "oidc"]
NewIntrospectionVerifier(cfg) == [kind |-> "introspection"]

\* NewCachingVerifier(verifier, c): a ttl <= 0 becomes the 5 minute default
NewCachingVerifier(v, c) ==
    [kind |-> "caching", verifier |-> v, ttl |-> NewCachingVerifierTTL(c)]

\* mutant: the strategy follows the client credentials, not the endpoint
NewVerifier_ByCredentials(cfg) ==
    NewCachingVerifier(IF cfg.ClientID # "" /\ cfg.ClientSecret # ""
                       THEN NewIntrospectionVerifier(cfg)
                       ELSE NewOIDCVerifier(cfg),
                       FiveMinutes * TicksPerSec)

\* NewVerifier: introspection if the endpoint is set, OIDC otherwise, and the
\* 5 minute cache around either
NewVerifier(cfg) ==
    NewCachingVerifier(IF cfg.IntrospectionEndpoint # ""
                       THEN NewIntrospectionVerifier(cfg)
                       ELSE NewOIDCVerifier(cfg),
                       FiveMinutes * TicksPerSec)

-----------------------------------------------------------------------------
(* JSON values, and what is known of a request's token before it is verified *)

\* What encoding/json leaves in an interface{}: a string, a float64 (a JSON
\* number), a map (a JSON object), nil (null, or the claim absent). s is the
\* value's text.
JString(str) == [t |-> "string", s |-> str]
JNumber == [t |-> "float64", s |-> "42"]
JObject == [t |-> "map", s |-> "{}"]
JNil == [t |-> "nil", s |-> ""]
\* a []interface{} (a JSON array) of such values
JArray(items) == [t |-> "array", s |-> "", items |-> items]
\* a value that is not an array
JScalar(v) == [t |-> v.t, s |-> v.s, items |-> <<>>]

\* no claims read. Claims that were read are aud, scope, exp, sub, iss, iat and
\* the client's id (azp in an ID token, client_id in an introspection response).
NoClaims == [read |-> FALSE]
\* a body that does not decode, no HTTP outcome, no introspection call made
NoBody == [decodes |-> FALSE, active |-> FALSE, claims |-> NoClaims]
NoOutcome == [transport |-> "none"]
NoCall == [calls |-> 0, out |-> NoOutcome]
\* no Verify method entered yet: CachingVerifier's, and the strategy's
NoEntered == [caching |-> 0, strategy |-> 0]
\* no CachingVerifier.Verify call under way. Otherwise stage is "missed" (line
\* 309 is reached, the wrapped verifier is being called) or "returned" (it has
\* returned o)
NoRet == [stage |-> "none", o |-> <<>>]

-----------------------------------------------------------------------------
(* BearerAuthMiddleware                                                    *)

\* request paths: the metadata path, a path that differs from it by a trailing
\* slash, and a protected route
Paths == {MetadataPath, "/.well-known/oauth-protected-resource/", "/mcp"}

\* the characters of a header value: a space, a tab and a token character
Chars == {" ", "\t", "x"}
\* longest text after the scheme in an Authorization header
MaxTail == 2
Tails == UNION {[1 .. n -> Chars] : n \in 0 .. MaxTail}

\* const prefix = "Bearer "
BearerPrefix == <<"B", "e", "a", "r", "e", "r", " ">>
\* how a header value starts: nothing, the scheme, and near misses of it
Schemes == {<<>>, BearerPrefix,
            <<"b", "e", "a", "r", "e", "r", " ">>,
            <<"B", "e", "a", "r", "e", "r">>,
            <<"B", "e", "a", "r", "e", "r", "\t">>,
            <<"T", "o", "k", "e", "n", " ">>}
\* r.Header.Get("Authorization"); <<>> is the absent (or empty) header
Headers == {s \o t : s \in Schemes, t \in Tails}

\* strings.HasPrefix, strings.TrimPrefix
HasPrefix(h, pre) == Len(h) >= Len(pre) /\ SubSeq(h, 1, Len(pre)) = pre
TrimPrefix(h, pre) == IF HasPrefix(h, pre) THEN SubSeq(h, Len(pre) + 1, Len(h)) ELSE h

\* unicode.IsSpace on the characters of the model
IsSpace(c) == c \in {" ", "\t"}

\* strings.TrimSpace: leading and trailing white space removed
RECURSIVE TrimLeft(_)
TrimLeft(str) ==
    IF str # <<>> /\ IsSpace(Head(str)) THEN TrimLeft(Tail(str)) ELSE str
RECURSIVE TrimRight(_)
TrimRight(str) ==
    IF str # <<>> /\ IsSpace(str[Len(str)])
    THEN TrimRight(SubSeq(str, 1, Len(str) - 1)) ELSE str
TrimSpace(str) == TrimRight(TrimLeft(str))

\* mutant: the token is taken as it stands after the prefix, TrimSpace forgotten
ExtractBearerToken_NoTrim(authHeader) ==
    IF authHeader = <<>> THEN [token |-> <<>>, err |-> ""]
    ELSE IF ~HasPrefix(authHeader, BearerPrefix)
    THEN [token |-> <<>>, err |-> "authorization header must use Bearer scheme"]
    ELSE LET token == TrimPrefix(authHeader, BearerPrefix) IN
         IF token = <<>>
         THEN [token |-> <<>>, err |-> "bearer token is empty"]
         ELSE [token |-> token, err |-> ""]

\* mutant: the scheme is matched without regard to the case of its first letter
ExtractBearerToken_AnyCase(authHeader) ==
    IF authHeader = <<>> THEN [token |-> <<>>, err |-> ""]
    ELSE IF ~(\/ HasPrefix(authHeader, BearerPrefix)
              \/ HasPrefix(authHeader, <<"b">> \o Tail(BearerPrefix)))
    THEN [token |-> <<>>, err |-> "authorization header must use Bearer scheme"]
    ELSE LET token == TrimSpace(SubSeq(authHeader, Len(BearerPrefix) + 1, Len(authHeader))) IN
         IF token = <<>>
         THEN [token |-> <<>>, err |-> "bearer token is empty"]
         ELSE [token |-> token, err |-> ""]

\* extractBearerToken: (token, err), err = "" for nil
ExtractBearerToken(authHeader) ==
    IF authHeader = <<>> THEN [token |-> <<>>, err |-> ""]
    ELSE IF ~HasPrefix(authHeader, BearerPrefix)
    THEN [token |-> <<>>, err |-> "authorization header must use Bearer scheme"]
    ELSE LET token == TrimSpace(TrimPrefix(authHeader, BearerPrefix)) IN
         IF token = <<>>
         THEN [token |-> <<>>, err |-> "bearer token is empty"]
         ELSE [token |-> token, err |-> ""]

\* What Wrap does to the response and the next handler, one record per effect:
\* "deny" is m.unauthorized (status, error code, description), "next" is
\* next.ServeHTTP with ctx the TokenInfo in the request context (NoInfo: none),
\* "panic" is a nil dereference.
\* A denial also has the text of its WWW-Authenticate and Content-Type headers
\* and of its body.
Effect(a, st, e, d, c) ==
    [act |-> a, status |-> st, error |-> e, description |-> d, ctx |-> c,
     wwwAuthenticate |-> "", contentType |-> "", body |-> ""]

\* m.unauthorized(w, errorCode, description): the header built by the Sprintf
\* calls of lines 165-175, the status, and the body of line 183
Unauthorized(errorCode, description) ==
    LET h0 == "Bearer realm=\"mcp\", resource_metadata=\"" \o metadataURL \o "\""
        h1 == IF errorCode # "" THEN h0 \o ", error=\"" \o errorCode \o "\"" ELSE h0
        authHeader == IF description # ""
                      THEN h1 \o ", error_description=\"" \o description \o "\""
                      ELSE h1
    IN  [Effect("deny", 401, errorCode, description, NoInfo) EXCEPT
            !.wwwAuthenticate = authHeader,
            !.contentType = "application/json",
            !.body = "{\"error\":\"" \o errorCode \o "\",\"error_description\":\""
                        \o description \o "\"}"]
\* next.ServeHTTP(w, r) with the TokenInfo c in r's context
ServeNext(c) == Effect("next", 0, "", "", c)

\* mutant: no bypass for the metadata path
WrapStart_NoBypass(path, authHeader) ==
    LET e == ExtractBearerToken(authHeader) IN
    IF e.err # ""
    THEN [fx |-> <<Unauthorized("invalid_request", e.err)>>, call |-> FALSE, token |-> <<>>]
    ELSE IF e.token = <<>>
    THEN [fx |-> <<Unauthorized("invalid_request", "Bearer token required")>>,
          call |-> FALSE, token |-> <<>>]
    ELSE [fx |-> <<>>, call |-> TRUE, token |-> e.token]

\* Wrap, lines 118-134: up to the call of the verifier. fx are the effects so
\* far, call whether m.verifier.Verify is called next, with token.
WrapStart(path, authHeader) ==
    IF path = MetadataPath
    THEN [fx |-> <<ServeNext(NoInfo)>>, call |-> FALSE, token |-> <<>>]
    ELSE LET e == ExtractBearerToken(authHeader) IN
         IF e.err # ""
         THEN [fx |-> <<Unauthorized("invalid_request", e.err)>>,
               call |-> FALSE, token |-> <<>>]
         ELSE IF e.token = <<>>
         THEN [fx |-> <<Unauthorized("invalid_request", "Bearer token required")>>,
               call |-> FALSE, token |-> <<>>]
         ELSE [fx |-> <<>>, call |-> TRUE, token |-> e.token]

\* mutant: the return after the denial is missing
WrapFinish_NoReturn(o) ==
    IF o.err
    THEN <<Unauthorized("invalid_token", "Token verification failed"), ServeNext(o.info)>>
    ELSE <<ServeNext(o.info)>>

\* mutant: the verifier's error text is passed on as the description
WrapFinish_LeakError(o) ==
    IF o.err
    THEN <<Unauthorized("invalid_token", o.why)>>
    ELSE <<ServeNext(o.info)>>

\* Wrap, lines 137-158: from the verifier's answer o = (info, err) to the end
WrapFinish(o) ==
    IF o.err
    THEN <<Unauthorized("invalid_token", "Token verification failed")>>
    ELSE <<ServeNext(o.info)>>

\* verified is what the verifier answered for the request: "no" (not called, or
\* not yet returned), "ok", or the text of its error
NoReq == [path |-> "", hdr |-> <<>>, token |-> <<>>, verified |-> "no"]

\* a request arrives and Wrap runs up to the verifier's call, or to its end
Serve(p, path, authHeader) ==
    LET r == WrapStart(path, authHeader) IN
    /\ pc[p] = "idle"
    /\ req' = [req EXCEPT ![p] =
                 [path |-> path, hdr |-> authHeader, token |-> r.token, verified |-> "no"]]
    /\ resp' = [resp EXCEPT ![p] = r.fx]
    /\ pc' = [pc EXCEPT ![p] = IF r.call THEN "mw_verify" ELSE "idle"]
    /\ info' = [info EXCEPT ![p] = NoInfo]
    /\ ret' = [ret EXCEPT ![p] = NoRet]

\* the middleware's verifier has answered o: info, err := m.verifier.Verify(...),
\* and the rest of Wrap
Finish(p, o) ==
    /\ req' = [req EXCEPT ![p].verified = IF o.err THEN o.why ELSE "ok"]
    /\ info' = [info EXCEPT ![p] = o.info]
    /\ resp' = [resp EXCEPT ![p] = resp[p] \o WrapFinish(o)]
    /\ pc' = [pc EXCEPT ![p] = "idle"]

\* a verifier returns o to its caller: to line 309 of CachingVerifier.Verify if
\* the call came from there, to Wrap otherwise
Answer(p, o) ==
    IF ret[p].stage = "missed"
    THEN /\ ret' = [ret EXCEPT ![p] = [stage |-> "returned", o |-> o]]
         /\ pc' = [pc EXCEPT ![p] = "cv_return"]
         /\ UNCHANGED <<req, info, resp>>
    ELSE Finish(p, o) /\ UNCHANGED ret

\* a request through Wrap; nothing has been read or asked about its token yet
MWServe(p, path, authHeader) ==
    /\ Serve(p, path, authHeader)
    /\ claimed' = [claimed EXCEPT ![p] = NoClaims]
    /\ ir' = [ir EXCEPT ![p] = NoCall]
    /\ entered' = [entered EXCEPT ![p] = NoEntered]
    /\ cancelled' = [cancelled EXCEPT ![p] = FALSE]
    /\ UNCHANGED <<cvVars, oidcVars, ctorVars, pureVars, heap, held, verifiedAt>>

\* line 137 with an arbitrary TokenVerifier: it answers for the token it was given
MWVerify(p) ==
    /\ pc[p] = "mw_verify"
    /\ \E o \in WrappedOutcomes(req[p].token) : Answer(p, o)
    /\ UNCHANGED <<cvVars, oidcVars, extVars>>

-----------------------------------------------------------------------------
(* RequireScopes                                                           *)

\* scope names, and the longest list of scopes (required, or granted to a token)
ScopeNames == {"mcp:tools", "mcp:admin", "mcp:read"}
MaxScopes == 2
ScopeLists == UNION {[1 .. n -> ScopeNames] : n \in 0 .. MaxScopes}

\* mutant: the comparison folds case
HasScope_FoldCase(t, scope) ==
    LET FoldCase(str) == IF str = "MCP:TOOLS" THEN "mcp:tools" ELSE str IN
    \E i \in 1 .. Len(t.Scopes) : FoldCase(t.Scopes[i]) = FoldCase(scope)

\* TokenInfo.HasScope, TokenInfo.HasAllScopes: t is a TokenInfo with its Scopes
HasScope(t, scope) == \E i \in 1 .. Len(t.Scopes) : t.Scopes[i] = scope

\* mutant: one of the required scopes is enough
HasAllScopes_Any(t, scopes) ==
    scopes = <<>> \/ \E i \in 1 .. Len(scopes) : HasScope(t, scopes[i])

HasAllScopes(t, scopes) == \A i \in 1 .. Len(scopes) : HasScope(t, scopes[i])

\* const tokenInfoKey
tokenInfoKey == "oauth:token_info"

\* A request context is a map from keys to values. ContextWithTokenInfo stores
\* info under tokenInfoKey; TokenInfoFromContext looks it up: (info, ok).
EmptyContext == <<>>
NilInfo == [Scopes |-> <<>>]
ContextWithTokenInfo(ctx, i) == MapStore(ctx, tokenInfoKey, i)
TokenInfoFromContext(ctx) ==
    IF tokenInfoKey \in DOMAIN ctx
    THEN [info |-> ctx[tokenInfoKey], ok |-> TRUE]
    ELSE [info |-> NilInfo, ok |-> FALSE]

\* The contexts a request reaches RequireScopes with: nothing under the key, or
\* the *TokenInfo that Wrap put there, which is the info of a successful Verify
\* and never nil for the verifiers of this package.
Contexts ==
    {EmptyContext} \cup {ContextWithTokenInfo(EmptyContext, [Scopes |-> l]) : l \in ScopeLists}

\* http.Error(w, text, code), and next.ServeHTTP(w, r)
HttpError(text, code) ==
    [act |-> "deny", status |-> code, contentType |-> "text/plain; charset=utf-8",
     body |-> text \o "\n"]
RSNext == [act |-> "next", status |-> 0, contentType |-> "", body |-> ""]

\* the handler that RequireScopes(scopes...) returns, on a request with context ctx
RequireScopes(scopes, ctx) ==
    LET r == TokenInfoFromContext(ctx) IN
    IF ~r.ok THEN <<HttpError("Authentication required", 401)>>
    ELSE IF ~HasAllScopes(r.info, scopes) THEN <<HttpError("Insufficient scope", 403)>>
    ELSE <<RSNext>>

NoRS == [scopes |-> <<>>, ctx |-> EmptyContext, fx |-> <<>>]

\* a request through RequireScopes(scopes...)
RSServe(scopes, ctx) ==
    /\ rs' = [scopes |-> scopes, ctx |-> ctx, fx |-> RequireScopes(scopes, ctx)]
    /\ UNCHANGED <<pc, info, cvVars, mwVars, oidcVars, ctorVars, auxVars, val, fn, mh, ivVars, entered>>

-----------------------------------------------------------------------------
(* Config.Validate                                                         *)

\* URL-valued settings: unset, a URL, and a string that url.Parse rejects
BadURL == ":8080/mcp"
IssuerValues == {"", "https://idp.example.com", BadURL}
ResourceValues == {"", "https://mcp.example.com", BadURL}
EndpointValues == {"", "https://idp.example.com/introspect", BadURL}

\* the Configs handed to Validate
Configs ==
    [Enabled : BOOLEAN,
     Issuer : IssuerValues,
     Audience : {"", "https://mcp.example.com"},
     ClientID : {"", "mcp"},
     ClientSecret : {"", "s3cret"},
     RequiredScopes : {<<>>},
     IntrospectionEndpoint : EndpointValues,
     ResourceServerURL : ResourceValues]

\* url.Parse(u) returns an error: of the rules of net/url, the one the strings
\* of the model can break is "missing protocol scheme", a colon before any
\* scheme character
UrlParseFails(u) == Len(u) > 0 /\ SubSeq(u, 1, 1) = ":"

\* strings.Join(errs, sep)
RECURSIVE Join(_, _)
Join(errs, sep) ==
    IF errs = <<>> THEN ""
    ELSE IF Len(errs) = 1 THEN errs[1]
    ELSE errs[1] \o sep \o Join(Tail(errs), sep)

\* lines 69-73, 75-77, 79-83, 85-92: what each rule appends to errs
IssuerErrs(c) ==
    IF c.Issuer = "" THEN <<"issuer is required when OAuth is enabled">>
    ELSE IF UrlParseFails(c.Issuer) THEN <<"issuer must be a valid URL">>
    ELSE <<>>
AudienceErrs(c) ==
    IF c.Audience = "" THEN <<"audience is required when OAuth is enabled">> ELSE <<>>
ResourceErrs(c) ==
    IF c.ResourceServerURL = ""
    THEN <<"resource_server_url is required when OAuth is enabled">>
    ELSE IF UrlParseFails(c.ResourceServerURL)
    THEN <<"resource_server_url must be a valid URL">>
    ELSE <<>>
IntrospectionErrs(c) ==
    IF c.IntrospectionEndpoint # ""
    THEN (IF c.ClientID = "" \/ c.ClientSecret = ""
          THEN <<"client_id and client_secret are required when using introspection">>
          ELSE <<>>)
         \o (IF UrlParseFails(c.IntrospectionEndpoint)
             THEN <<"introspection_endpoint must be a valid URL">>
             ELSE <<>>)
    ELSE <<>>

\* lines 94-98: the combined error, "" for nil
Combined(errs) ==
    IF Len(errs) > 0
    THEN "oauth config validation failed: " \o Join(errs, "; ")
    ELSE ""

\* mutant: a disabled Config is checked like an enabled one
Validate_IgnoreEnabled(c) ==
    Combined(IssuerErrs(c) \o AudienceErrs(c) \o ResourceErrs(c) \o IntrospectionErrs(c))

\* mutant: the first violated rule is returned alone
Validate_FirstOnly(c) ==
    IF ~c.Enabled THEN ""
    ELSE LET errs == IssuerErrs(c) \o AudienceErrs(c) \o ResourceErrs(c)
                        \o IntrospectionErrs(c)
         IN  Combined(IF errs = <<>> THEN errs ELSE <<errs[1]>>)

\* mutant: one client credential is enough for introspection
Validate_OneCredential(c) ==
    IF ~c.Enabled THEN ""
    ELSE Combined(IssuerErrs(c) \o AudienceErrs(c) \o ResourceErrs(c)
                  \o (IF c.IntrospectionEndpoint # ""
                      THEN (IF c.ClientID = "" /\ c.ClientSecret = ""
                            THEN <<"client_id and client_secret are required when using introspection">>
                            ELSE <<>>)
                           \o (IF UrlParseFails(c.IntrospectionEndpoint)
                               THEN <<"introspection_endpoint must be a valid URL">>
                               ELSE <<>>)
                      ELSE <<>>))

\* Config.Validate: the error text, "" for nil
Validate(c) ==
    IF ~c.Enabled THEN ""
    ELSE Combined(IssuerErrs(c) \o AudienceErrs(c) \o ResourceErrs(c)
                  \o IntrospectionErrs(c))

NoVal == [cfg |-> BaseConfig, err |-> "", done |-> FALSE]

\* c.Validate() is called on a Config
DoValidate(c) ==
    /\ val' = [cfg |-> c, err |-> Validate(c), done |-> TRUE]
    /\ UNCHANGED <<pc, info, cvVars, mwVars, oidcVars, ctorVars, auxVars, rs, fn, mh, ivVars, entered>>

-----------------------------------------------------------------------------
(* The claims of a token, as a verifier decodes them                       *)

\* the elements of an audience array, and the longest array
AudElems == {JString("https://mcp.example.com"), JString("https://other.example.com"), JNumber}
MaxAud == 2
AudArrays == UNION {[1 .. n -> AudElems] : n \in 0 .. MaxAud}
\* the values of the aud claim: absent, a string, a number, an object, an array
AudValues ==
    {JScalar(JNil), JScalar(JString("https://mcp.example.com")),
     JScalar(JString("https://mcp.example.com/")), JScalar(JNumber), JScalar(JObject)}
    \cup {JArray(a) : a \in AudArrays}

\* the values of the scope claim
ScopeStrings == {"mcp:tools mcp:read"}

\* the scope claim absent or empty, one scope, two scopes, two spaces in a row
AllScopeStrings ==
    ScopeStrings \cup {"", "mcp:tools", "mcp:tools extra:scope", "mcp:tools  mcp:read"}

\* the claims read from a token, but for aud, scope and exp
Claims(auds, scopes, exps) ==
    [aud : auds, scope : scopes, exp : exps, sub : {"alice"},
     iss : {"https://idp.example.com"}, iat : {1}, client : {"cli"}]

\* the claims of the tokens of concurrent requests, and of one request at a time
ClaimSets == Claims(AudValues, ScopeStrings, {0})
AllClaims == Claims(AudValues, AllScopeStrings, {0})

\* strings.Split(str, sep)
RECURSIVE Split(_, _)
Split(str, sep) ==
    IF ~Contains(str, sep) THEN <<str>>
    ELSE LET at == CHOOSE i \in 1 .. Len(str) :
                      /\ SubSeq(str, i, i + Len(sep) - 1) = sep
                      /\ \A j \in 1 .. (i - 1) : SubSeq(str, j, j + Len(sep) - 1) # sep
         IN  <<SubSeq(str, 1, at - 1)>> \o Split(SubSeq(str, at + Len(sep), Len(str)), sep)

\* mutant: the scope claim is taken as one scope
ParseScopes_Whole(scope) == IF scope # "" THEN <<scope>> ELSE <<>>

\* lines 112-115 and 242-245: the scope claim as a list
ParseScopes(scope) == IF scope # "" THEN Split(scope, " ") ELSE <<>>

\* the loop of lines 104-108 and 232-236: the elements that are strings
RECURSIVE StringsOf(_)
StringsOf(items) ==
    IF items = <<>> THEN <<>>
    ELSE (IF Head(items).t = "string" THEN <<Head(items).s>> ELSE <<>>)
            \o StringsOf(Tail(items))

\* OIDCVerifier.Verify, lines 99-109: the switch has no default case
ParseAudienceOIDC(aud) ==
    IF aud.t = "string" THEN [err |-> FALSE, audience |-> <<aud.s>>]
    ELSE IF aud.t = "array" THEN [err |-> FALSE, audience |-> StringsOf(aud.items)]
    ELSE [err |-> FALSE, audience |-> <<>>]

\* IntrospectionVerifier.Verify, lines 227-239: the default case is an error
ParseAudienceIntrospection(aud) ==
    IF aud.t = "string" THEN [err |-> FALSE, audience |-> <<aud.s>>]
    ELSE IF aud.t = "array" THEN [err |-> FALSE, audience |-> StringsOf(aud.items)]
    ELSE [err |-> TRUE, audience |-> <<>>]

\* mutant: the strings are compared as they are
HasAudience_Exact(t, audience) ==
    \E i \in 1 .. Len(t.Audience) : t.Audience[i] = audience

\* TokenInfo.HasAudience: a trailing slash is removed from both sides
HasAudience(t, audience) ==
    LET normalizedAudience == TrimSuffix(audience, "/") IN
    \E i \in 1 .. Len(t.Audience) : TrimSuffix(t.Audience[i], "/") = normalizedAudience

\* (nil, err) and (info, nil)
Rejected(why) == [err |-> TRUE, why |-> why, info |-> NoInfo]
Accepted(i) == [err |-> FALSE, why |-> "", info |-> i]

\* mutant: the audience and the scopes are not checked
OIDCResult_NoPostChecks(claims, token, cfg) ==
    LET a == ParseAudienceOIDC(claims.aud) IN
    Accepted([Token |-> token, Subject |-> claims.sub, ClientID |-> claims.client,
              Issuer |-> claims.iss, IssuedAt |-> claims.iat, ExpiresAt |-> claims.exp,
              Audience |-> a.audience, Scopes |-> ParseScopes(claims.scope)])

\* OIDCVerifier.Verify, lines 94-144: from the claims of a verified ID token to
\* the result
OIDCResult(claims, token, cfg) ==
    LET a == ParseAudienceOIDC(claims.aud)
        i == [Token |-> token, Subject |-> claims.sub, ClientID |-> claims.client,
              Issuer |-> claims.iss, IssuedAt |-> claims.iat, ExpiresAt |-> claims.exp,
              Audience |-> a.audience, Scopes |-> ParseScopes(claims.scope)]
    IN  IF cfg.Audience # "" /\ ~HasAudience(i, cfg.Audience)
        THEN Rejected("token audience does not match expected audience")
        ELSE IF Len(cfg.RequiredScopes) > 0 /\ ~HasAllScopes(i, cfg.RequiredScopes)
        THEN Rejected("token missing required scopes")
        ELSE Accepted(i)

-----------------------------------------------------------------------------
(* IntrospectionVerifier                                                   *)

\* the body of an introspection response: undecodable, or an
\* introspectionResponse with its active field and its claims
Bodies(cs) == {NoBody} \cup [decodes : {TRUE}, active : BOOLEAN, claims : cs]

\* v.httpClient.Do(req): a transport failure (a timeout, a cancelled context),
\* or a response with a status and a body
HttpOutcomes(cs) ==
    {[transport |-> "error", status |-> 0, body |-> NoBody]}
    \cup [transport : {"ok"}, status : {200, 401}, body : Bodies(cs)]

\* the request is built with the caller's ctx (line 200): once ctx is cancelled,
\* Do and the reading of the body fail with the context's error
DoOutcomes(p, cs) ==
    IF cancelled[p]
    THEN {o \in HttpOutcomes(cs) : o.transport = "error"}
    ELSE HttpOutcomes(cs)

\* the context of request p is cancelled while the request is being served (the
\* client went away, a deadline passed): r.Context() of line 137 of Wrap
Cancel(p) ==
    /\ pc[p] # "idle"
    /\ ~cancelled[p]
    /\ cancelled' = [cancelled EXCEPT ![p] = TRUE]
    /\ UNCHANGED <<pc, info, cvVars, mwVars, oidcVars, ctorVars, pureVars, ivVars,
                   entered, heap, held, verifiedAt>>

\* mutant: the active field is not looked at
IntrospectionResult_IgnoreActive(out, token, cfg) ==
    IF out.transport # "ok" THEN Rejected("introspection request failed")
    ELSE IF out.status # 200
    THEN Rejected("introspection returned status " \o ToString(out.status))
    ELSE IF ~out.body.decodes THEN Rejected("failed to parse introspection response")
    ELSE LET a == ParseAudienceIntrospection(out.body.claims.aud)
             i == [Token |-> token, Subject |-> out.body.claims.sub,
                   ClientID |-> out.body.claims.client, Issuer |-> out.body.claims.iss,
                   IssuedAt |-> out.body.claims.iat, ExpiresAt |-> out.body.claims.exp,
                   Audience |-> a.audience,
                   Scopes |-> ParseScopes(out.body.claims.scope)]
         IN  IF a.err THEN Rejected("unexpected type for audience claim")
             ELSE IF cfg.Audience # "" /\ ~HasAudience(i, cfg.Audience)
             THEN Rejected("token audience does not match expected audience")
             ELSE IF Len(cfg.RequiredScopes) > 0 /\ ~HasAllScopes(i, cfg.RequiredScopes)
             THEN Rejected("token missing required scopes")
             ELSE Accepted(i)

\* mutant: a failed check returns its error together with the TokenInfo
IntrospectionResult_Partial(out, token, cfg) ==
    IF out.transport # "ok" THEN Rejected("introspection request failed")
    ELSE IF out.status # 200
    THEN Rejected("introspection returned status " \o ToString(out.status))
    ELSE IF ~out.body.decodes THEN Rejected("failed to parse introspection response")
    ELSE IF ~out.body.active THEN Rejected("token is not active")
    ELSE LET a == ParseAudienceIntrospection(out.body.claims.aud)
             i == [Token |-> token, Subject |-> out.body.claims.sub,
                   ClientID |-> out.body.claims.client, Issuer |-> out.body.claims.iss,
                   IssuedAt |-> out.body.claims.iat, ExpiresAt |-> out.body.claims.exp,
                   Audience |-> a.audience,
                   Scopes |-> ParseScopes(out.body.claims.scope)]
         IN  IF a.err THEN Rejected("unexpected type for audience claim")
             ELSE IF cfg.Audience # "" /\ ~HasAudience(i, cfg.Audience)
             THEN [err |-> TRUE, info |-> i,
                   why |-> "token audience does not match expected audience"]
             ELSE IF Len(cfg.RequiredScopes) > 0 /\ ~HasAllScopes(i, cfg.RequiredScopes)
             THEN [err |-> TRUE, info |-> i, why |-> "token missing required scopes"]
             ELSE Accepted(i)

\* IntrospectionVerifier.Verify, lines 207-269: from the outcome of the HTTP
\* call to the result
IntrospectionResult(out, token, cfg) ==
    IF out.transport # "ok" THEN Rejected("introspection request failed")
    ELSE IF out.status # 200
    THEN Rejected("introspection returned status " \o ToString(out.status))
    ELSE IF ~out.body.decodes THEN Rejected("failed to parse introspection response")
    ELSE IF ~out.body.active THEN Rejected("token is not active")
    ELSE LET a == ParseAudienceIntrospection(out.body.claims.aud)
             i == [Token |-> token, Subject |-> out.body.claims.sub,
                   ClientID |-> out.body.claims.client, Issuer |-> out.body.claims.iss,
                   IssuedAt |-> out.body.claims.iat, ExpiresAt |-> out.body.claims.exp,
                   Audience |-> a.audience,
                   Scopes |-> ParseScopes(out.body.claims.scope)]
         IN  IF a.err THEN Rejected("unexpected type for audience claim")
             ELSE IF cfg.Audience # "" /\ ~HasAudience(i, cfg.Audience)
             THEN Rejected("token audience does not match expected audience")
             ELSE IF Len(cfg.RequiredScopes) > 0 /\ ~HasAllScopes(i, cfg.RequiredScopes)
             THEN Rejected("token missing required scopes")
             ELSE Accepted(i)

\* lines 189-205: the endpoint is looked at and the request is built;
\* http.NewRequestWithContext fails on a URL that url.Parse rejects
IVRequest(p) ==
    /\ pc[p] = "mw_verify"
    /\ IF config.IntrospectionEndpoint = ""
       THEN Answer(p, Rejected("introspection endpoint not configured"))
       ELSE IF UrlParseFails(config.IntrospectionEndpoint)
       THEN Answer(p, Rejected("failed to create introspection request"))
       ELSE /\ pc' = [pc EXCEPT ![p] = "iv_do"]
            /\ UNCHANGED <<info, mwVars>>
    /\ ir' = [ir EXCEPT ![p] = NoCall]
    /\ claimed' = [claimed EXCEPT ![p] = NoClaims]
    /\ entered' = [entered EXCEPT ![p].strategy = @ + 1]
    /\ UNCHANGED <<cvVars, oidcVars, ctorVars, auxVars, pureVars>>

\* mutant: a call that failed in transport is made once more
IVResponse_Retry(p, cs) ==
    /\ pc[p] = "iv_do"
    /\ \E out \in DoOutcomes(p, cs) :
          /\ ir' = [ir EXCEPT ![p] = [calls |-> ir[p].calls + 1, out |-> out]]
          /\ claimed' = [claimed EXCEPT ![p] = out.body.claims]
          /\ IF out.transport # "ok" /\ ir[p].calls = 0
             THEN UNCHANGED <<pc, info, mwVars>>
             ELSE Answer(p, IntrospectionResult(out, req[p].token, config))
    /\ UNCHANGED <<cvVars, oidcVars, ctorVars, auxVars, pureVars, entered>>

\* lines 207-269: the HTTP call, and what Verify makes of its outcome
IVResponse(p, cs) ==
    /\ pc[p] = "iv_do"
    /\ \E out \in DoOutcomes(p, cs) :
          /\ ir' = [ir EXCEPT ![p] = [calls |-> ir[p].calls + 1, out |-> out]]
          /\ claimed' = [claimed EXCEPT ![p] = out.body.claims]
          /\ Answer(p, IntrospectionResult(out, req[p].token, config))
    /\ UNCHANGED <<cvVars, oidcVars, ctorVars, auxVars, pureVars, entered>>

-----------------------------------------------------------------------------
(* CachingVerifier between Wrap and the strategy NewVerifier chose          *)

\* the Configs NewVerifier is called with: CtorConfigs, with and without an
\* expected audience and a required scope (the constructors do not validate)
StrategyConfigs ==
    {[c EXCEPT !.Audience = a, !.RequiredScopes = r] :
        c \in CtorConfigs, a \in {"", BaseConfig.Audience}, r \in {<<>>, <<"mcp:tools">>}}
\* those among them with one resource URL and an endpoint that is unset or a URL
StackConfigs ==
    {c \in StrategyConfigs :
        /\ c.ResourceServerURL = BaseConfig.ResourceServerURL
        /\ ~UrlParseFails(c.IntrospectionEndpoint)}

\* the claims of the tokens sent through the cache: aud absent, the expected
\* audience with and without a trailing slash, another audience; no scope or two
\* scopes; no expiry or an early one
StackClaims ==
    Claims({JScalar(JNil), JScalar(JString("https://mcp.example.com")),
            JScalar(JString("https://mcp.example.com/")),
            JArray(<<JString("https://other.example.com")>>)},
           {"", "mcp:tools extra:scope"}, {0, 1})
\* the requests sent through the cache: no header, or one token
StackHeaders == {<<>>, BearerPrefix \o <<"x">>}

\* the Configs of the concurrent requests: either strategy, an audience expected
SharedConfigs == {c \in StackConfigs : c.Audience # "" /\ c.RequiredScopes = <<>>}
\* the claims of their tokens: the expected audience, one scope or two, no expiry
SharedClaims ==
    Claims({JScalar(JString("https://mcp.example.com"))},
           {"mcp:tools", "mcp:tools extra:scope"}, {0})
\* two tokens
SharedHeaders == {BearerPrefix \o <<"x">>, BearerPrefix \o <<"x", "x">>}

\* mutant: the entry is not looked up by the token of the call; any fresh entry
\* of the cache is returned
SVLoad_AnyKey(p) ==
    LET t == req[p].token
        fresh == {k \in DOMAIN cache : EntryFresh(now, cache[k])}
    IN
    /\ pc[p] = "mw_verify"
    /\ ret[p].stage = "none"
    /\ entered' = [entered EXCEPT ![p].caching = @ + 1]
    /\ IF fresh # {}
       THEN \E k \in fresh :
            /\ Finish(p, Accepted(cache[k].info))
            /\ ret' = [ret EXCEPT ![p] = [stage |-> "hit", o |-> Accepted(cache[k].info)]]
            /\ ev' = Ev("hit", t, cache[k].info)
            /\ UNCHANGED cache
       ELSE /\ cache' = IF t \in DOMAIN cache THEN MapDelete(cache, t) ELSE cache
            /\ ret' = [ret EXCEPT ![p] = [stage |-> "missed", o |-> NoRet.o]]
            /\ ev' = Ev(IF t \in DOMAIN cache THEN "stale" ELSE "miss", t, NoInfo)
            /\ UNCHANGED <<pc, info, req, resp>>
    /\ UNCHANGED <<tok, now, ttl, lastDone, oidcVars, ctorVars, auxVars, pureVars, ivVars>>

\* lines 298-306 for the token of the request: Load, then the hit, or the
\* removal of an expired entry and the way to line 309
SVLoad(p) ==
    LET t == req[p].token IN
    /\ pc[p] = "mw_verify"
    /\ ret[p].stage = "none"
    /\ entered' = [entered EXCEPT ![p].caching = @ + 1]
    /\ IF t \in DOMAIN cache /\ EntryFresh(now, cache[t])
       THEN /\ Finish(p, Accepted(cache[t].info))
            /\ ret' = [ret EXCEPT ![p] = [stage |-> "hit", o |-> Accepted(cache[t].info)]]
            /\ ev' = Ev("hit", t, cache[t].info)
            /\ UNCHANGED cache
       ELSE /\ cache' = IF t \in DOMAIN cache THEN MapDelete(cache, t) ELSE cache
            /\ ret' = [ret EXCEPT ![p] = [stage |-> "missed", o |-> NoRet.o]]
            /\ ev' = Ev(IF t \in DOMAIN cache THEN "stale" ELSE "miss", t, NoInfo)
            /\ UNCHANGED <<pc, info, req, resp>>
    /\ UNCHANGED <<tok, now, ttl, lastDone, oidcVars, ctorVars, auxVars, pureVars, ivVars>>

\* lines 309-329: the wrapped verifier has returned o; its error is returned
\* with no TokenInfo, its TokenInfo is stored and returned
SVReturn(p) ==
    LET o == ret[p].o
        t == req[p].token
    IN  /\ pc[p] = "cv_return"
        /\ IF o.err
           THEN /\ Finish(p, Rejected(o.why))
                /\ cache' = cache
                /\ ev' = Ev("error", t, NoInfo)
           ELSE /\ Finish(p, Accepted(o.info))
                /\ cache' = MapStore(cache, t,
                               [info |-> o.info,
                                expiresAt |-> EntryExpiry(now, ttl, o.info),
                                storedAt |-> now])
                /\ ev' = Ev("fresh", t, o.info)
        /\ UNCHANGED <<ret, tok, now, ttl, lastDone, oidcVars, extVars>>

-----------------------------------------------------------------------------
(* CachingVerifier with the *TokenInfo of cacheEntry.info and of Verify's    *)
(* result kept as the pointer it is                                          *)

\* most TokenInfo objects the wrapped verifier allocates in a behaviour
MaxObjects == 2

\* TokenInfo's fields are exported: what the holder of a *TokenInfo may assign
\* to them (here, to Scopes)
Edits == {<<"mcp:admin">>}

\* &TokenInfo{...} of the wrapped verifier: a new object after the existing ones
New(h, i) == [heap |-> Append(h, i), addr |-> Len(h) + 1]

\* lines 298-306: Load; a fresh entry's pointer is returned as it is stored
PLoad(p, t) ==
    /\ pc[p] = "idle"
    /\ IF t \in DOMAIN cache /\ EntryFresh(now, cache[t])
       THEN /\ held' = [held EXCEPT ![p] = cache[t].info]
            /\ ev' = Ev("hit", t, heap[cache[t].info])
            /\ UNCHANGED <<pc, tok, cache>>
       ELSE /\ cache' = IF t \in DOMAIN cache THEN MapDelete(cache, t) ELSE cache
            /\ pc' = [pc EXCEPT ![p] = "cv_verify"]
            /\ tok' = [tok EXCEPT ![p] = t]
            /\ ev' = Ev(IF t \in DOMAIN cache THEN "stale" ELSE "miss", t, NoInfo)
            /\ UNCHANGED held
    /\ UNCHANGED <<info, now, ttl, lastDone, mwVars, oidcVars, ctorVars, pureVars,
                   ivVars, entered, cancelled, heap, verifiedAt>>

\* lines 309-329: the wrapped verifier fails, or returns a new TokenInfo; the
\* pointer it returned goes into the entry and to the caller
PVerify(p) ==
    /\ pc[p] = "cv_verify"
    /\ \E o \in WrappedOutcomes(tok[p]) :
         IF o.err
         THEN /\ held' = [held EXCEPT ![p] = 0]
              /\ ev' = Ev("error", tok[p], NoInfo)
              /\ UNCHANGED <<heap, cache>>
         ELSE LET n == New(heap, o.info) IN
              /\ Len(heap) < MaxObjects
              /\ heap' = n.heap
              /\ cache' = MapStore(cache, tok[p],
                             [info |-> n.addr,
                              expiresAt |-> EntryExpiry(now, ttl, o.info),
                              storedAt |-> now])
              /\ held' = [held EXCEPT ![p] = n.addr]
              /\ ev' = Ev("fresh", tok[p], o.info)
    /\ pc' = [pc EXCEPT ![p] = "idle"]
    /\ tok' = [tok EXCEPT ![p] = <<>>]
    /\ UNCHANGED <<info, now, ttl, lastDone, mwVars, oidcVars, ctorVars, pureVars,
                   ivVars, entered, cancelled, verifiedAt>>

\* the caller assigns to a field of the TokenInfo that Verify returned to it
PWrite(p, scopes) ==
    /\ held[p] # 0
    /\ heap[held[p]].Scopes # scopes
    /\ heap' = [heap EXCEPT ![held[p]].Scopes = scopes]
    /\ ev' = Ev("written", heap[held[p]].Token, heap'[held[p]])
    /\ UNCHANGED <<pc, info, tok, now, ttl, cache, lastDone, mwVars, oidcVars, ctorVars,
                   pureVars, ivVars, entered, cancelled, held, verifiedAt>>

-----------------------------------------------------------------------------
(* The functions of the package, called on their own                       *)

\* no call made yet, and a call of the function name on args that returned out
NoFn == [name |-> "", args |-> <<>>, out |-> <<>>]
Called(name, args, out) == [name |-> name, args |-> args, out |-> out]

\* a TokenInfo with these scopes, and one with the audience decoded from aud
WithScopes(l) == [NoInfo EXCEPT !.Scopes = l]
WithAudience(aud) == [NoInfo EXCEPT !.Audience = ParseAudienceOIDC(aud).audience]

\* audiences with no, one and two trailing slashes, another one, the empty string
AudienceNames ==
    {"https://mcp.example.com", "https://mcp.example.com/", "https://mcp.example.com//",
     "https://other.example.com", ""}
\* the aud claims HasAudience is asked about: each name as a string and as an
\* array of one string, next to the values of AudValues
QueriedAuds ==
    AudValues \cup {JScalar(JString(a)) : a \in AudienceNames}
              \cup {JArray(<<JString(a)>>) : a \in AudienceNames}

\* the scope lists HasAllScopes is called with: among the names, two that
\* differ in case only
CasedScopeNames == {"mcp:tools", "MCP:TOOLS", "mcp:read"}
CasedScopeLists == UNION {[1 .. n -> CasedScopeNames] : n \in 0 .. MaxScopes}

\* t.HasAllScopes(required) on a TokenInfo with the scopes granted
CallHasAllScopes(granted, required) ==
    /\ fn' = Called("HasAllScopes", <<granted, required>>,
                    HasAllScopes(WithScopes(granted), required))
    /\ UNCHANGED <<pc, info, cvVars, mwVars, oidcVars, ctorVars, auxVars, rs, val, mh, ivVars, entered>>

\* t.HasAudience(audience) on a TokenInfo whose Audience was decoded from aud
CallHasAudience(aud, audience) ==
    /\ fn' = Called("HasAudience", <<aud, audience>>, HasAudience(WithAudience(aud), audience))
    /\ UNCHANGED <<pc, info, cvVars, mwVars, oidcVars, ctorVars, auxVars, rs, val, mh, ivVars, entered>>

\* the Configs both strategies are built with, to compare them: an endpoint is
\* set, which NewOIDCVerifier does not look at
BothConfigs == {c \in StackConfigs : c.IntrospectionEndpoint # ""}
\* an introspection response that passes the checks of lines 207-224, with these claims
ActiveWith(claims) ==
    [transport |-> "ok", status |-> 200,
     body |-> [decodes |-> TRUE, active |-> TRUE, claims |-> claims]]

\* NewOIDCVerifier(cfg).Verify and NewIntrospectionVerifier(cfg).Verify on a
\* token with the same claims: an ID token the library verified, and a token
\* the introspection endpoint reports as active
CallVerifiers(cfg, claims) ==
    /\ fn' = Called("Verify", <<cfg, claims>>,
                    [oidc |-> OIDCResult(claims, <<"x">>, cfg),
                     introspection |-> IntrospectionResult(ActiveWith(claims), <<"x">>, cfg)])
    /\ UNCHANGED <<pc, info, cvVars, mwVars, oidcVars, ctorVars, auxVars, rs, val, mh, ivVars, entered>>

-----------------------------------------------------------------------------
(* Protected Resource Metadata                                             *)

\* the Configs metadata is built from
MetaConfigs ==
    {[BaseConfig EXCEPT !.Issuer = i, !.ResourceServerURL = u, !.RequiredScopes = r,
                        !.ResourceName = n, !.ResourceDocumentation = d] :
        i \in {"", "https://idp.example.com"},
        u \in ResourceServerURLs \cup {""},
        r \in ScopeLists,
        n \in {"", "DMARC reports"},
        d \in {"", "https://mcp.example.com/docs"}}

\* mutant: no default scope
BuildMetadata_NoDefault(cfg) ==
    [Resource |-> cfg.ResourceServerURL,
     AuthorizationServers |-> <<cfg.Issuer>>,
     ScopesSupported |-> cfg.RequiredScopes,
     BearerMethodsSupported |-> <<"header">>,
     ResourceName |-> cfg.ResourceName,
     ResourceDocumentation |-> cfg.ResourceDocumentation]

\* BuildMetadata: the fields it sets; the others keep their zero values
BuildMetadata(cfg) ==
    LET metadata == [Resource |-> cfg.ResourceServerURL,
                     AuthorizationServers |-> <<cfg.Issuer>>,
                     ScopesSupported |-> cfg.RequiredScopes,
                     BearerMethodsSupported |-> <<"header">>,
                     ResourceName |-> cfg.ResourceName,
                     ResourceDocumentation |-> cfg.ResourceDocumentation]
    IN  IF Len(metadata.ScopesSupported) = 0
        THEN [metadata EXCEPT !.ScopesSupported = <<"mcp:tools">>]
        ELSE metadata

\* encoding/json on a string and on a []string; no value of the model holds a
\* character that is escaped
JsonString(str) == "\"" \o str \o "\""
JsonStrings(l) == "[" \o Join([i \in 1 .. Len(l) |-> JsonString(l[i])], ",") \o "]"
\* a member of the object, and one tagged omitempty
Member(key, text) == <<JsonString(key) \o ":" \o text>>
OmitEmpty(key, empty, text) == IF empty THEN <<>> ELSE Member(key, text)

\* json.NewEncoder(w).Encode(metadata): the members in the order of the struct's
\* fields, the empty ones left out but for resource, and a newline at the end
Encode(m) ==
    "{" \o Join(Member("resource", JsonString(m.Resource))
                \o OmitEmpty("authorization_servers", Len(m.AuthorizationServers) = 0,
                             JsonStrings(m.AuthorizationServers))
                \o OmitEmpty("scopes_supported", Len(m.ScopesSupported) = 0,
                             JsonStrings(m.ScopesSupported))
                \o OmitEmpty("bearer_methods_supported", Len(m.BearerMethodsSupported) = 0,
                             JsonStrings(m.BearerMethodsSupported))
                \o OmitEmpty("resource_name", m.ResourceName = "",
                             JsonString(m.ResourceName))
                \o OmitEmpty("resource_documentation", m.ResourceDocumentation = "",
                             JsonString(m.ResourceDocumentation)),
                ",") \o "}\n"

\* request methods; net/http hands the method over as the client wrote it
Methods == {"GET", "HEAD", "POST", "PUT", "DELETE", "OPTIONS", "get"}

\* what the handler wrote: the status, three headers, the body
Written(st, allow, ct, cc, b) ==
    [status |-> st, allow |-> allow, contentType |-> ct, cacheControl |-> cc, body |-> b]

\* mutant: the method is not looked at
MetadataHandler_AnyMethod(cfg, method) ==
    Written(200, "", "application/json", "public, max-age=3600", Encode(BuildMetadata(cfg)))

\* the handler MetadataHandler(cfg) returns, on a request with this method. A
\* struct of strings and string slices always encodes, so line 438 is not reached.
MetadataHandler(cfg, method) ==
    LET metadata == BuildMetadata(cfg) IN
    IF method # "GET"
    THEN Written(405, "GET", "text/plain; charset=utf-8", "", "Method not allowed\n")
    ELSE Written(200, "", "application/json", "public, max-age=3600", Encode(metadata))

\* BuildMetadata(cfg)
CallBuildMetadata(cfg) ==
    /\ fn' = Called("BuildMetadata", <<cfg>>, BuildMetadata(cfg))
    /\ UNCHANGED <<pc, info, cvVars, mwVars, oidcVars, ctorVars, auxVars, rs, val, mh, ivVars, entered>>

NoMH == [cfg |-> <<>>, method |-> "", fx |-> <<>>]

\* a request to the handler that MetadataHandler(cfg) returned
MHServe(cfg, method) ==
    /\ mh' = [cfg |-> cfg, method |-> method, fx |-> MetadataHandler(cfg, method)]
    /\ UNCHANGED <<pc, info, cvVars, mwVars, oidcVars, ctorVars, auxVars, rs, val, fn, ivVars, entered>>

-----------------------------------------------------------------------------
(* OIDCVerifier, as the verifier of BearerAuthMiddleware                   *)

\* the error init stores when oidc.NewProvider fails
DiscoveryError == "failed to create OIDC provider"

\* header values of the requests of SpecOIDC: none, a wrong scheme, two tokens
FewHeaders == {<<>>, <<"T", "o", "k", "e", "n", " ", "x">>,
               BearerPrefix \o <<"x">>, BearerPrefix \o <<"x", "x">>}

\* mutant: a hand-rolled check with no lock; whoever finds init unfinished runs it
OnceDo_Racy(p) ==
    /\ pc[p] = "mw_verify"
    /\ IF once # "done"
       THEN once' = "running" /\ pc' = [pc EXCEPT ![p] = "ov_discover"]
       ELSE once' = once /\ pc' = [pc EXCEPT ![p] = "ov_inited"]

\* mutant: a caller that finds init under way does not wait for it
OnceDo_NoWait(p) ==
    /\ pc[p] = "mw_verify"
    /\ IF once = "new"
       THEN once' = "running" /\ pc' = [pc EXCEPT ![p] = "ov_discover"]
       ELSE once' = once /\ pc' = [pc EXCEPT ![p] = "ov_inited"]

\* v.initOnce.Do(f), line 42: the first caller runs f, a caller that arrives
\* while f runs blocks until f has returned, a later caller returns at once
OnceDo(p) ==
    /\ pc[p] = "mw_verify"
    /\ once # "running"
    /\ IF once = "new"
       THEN once' = "running" /\ pc' = [pc EXCEPT ![p] = "ov_discover"]
       ELSE once' = once /\ pc' = [pc EXCEPT ![p] = "ov_inited"]

\* Verify calls v.init, which calls initOnce.Do
OVDo(p) ==
    /\ OnceDo(p)
    /\ entered' = [entered EXCEPT ![p].strategy = @ + 1]
    /\ UNCHANGED <<info, cvVars, mwVars, initError, verifier, discoveries,
                   ctorVars, auxVars, pureVars, ivVars>>

\* mutant: a failed discovery re-arms the initializer, so that a later call retries
Discover_Retry(p, ok) ==
    /\ pc[p] = "ov_discover"
    /\ discoveries' = discoveries + 1
    /\ IF ok
       THEN verifier' = "set" /\ initError' = "nil" /\ once' = "done"
       ELSE verifier' = verifier /\ initError' = "failed" /\ once' = "new"
    /\ pc' = [pc EXCEPT ![p] = "ov_inited"]

\* mutant: discovery runs under context.Background(), not under the caller's ctx
Discover_Background(p, ok) ==
    /\ pc[p] = "ov_discover"
    /\ discoveries' = discoveries + 1
    /\ IF ok
       THEN verifier' = "set" /\ initError' = initError
       ELSE verifier' = verifier /\ initError' = "failed"
    /\ once' = "done"
    /\ pc' = [pc EXCEPT ![p] = "ov_inited"]

\* the function given to Do, lines 43-68: oidc.NewProvider succeeds (ok) or fails.
\* It is given the ctx of the caller that runs f (line 56): with that ctx
\* cancelled, its requests fail
Discover(p, ok) ==
    /\ pc[p] = "ov_discover"
    /\ cancelled[p] => ~ok
    /\ discoveries' = discoveries + 1
    /\ IF ok
       THEN verifier' = "set" /\ initError' = initError
       ELSE verifier' = verifier /\ initError' = "failed"
    /\ once' = "done"
    /\ pc' = [pc EXCEPT ![p] = "ov_inited"]

OVDiscover(p) ==
    /\ \E ok \in BOOLEAN : Discover(p, ok)
    /\ UNCHANGED <<info, cvVars, mwVars, extVars>>

\* lines 71 and 76-78: init returns v.initError, and Verify returns it if not nil
OVInitReturn(p) ==
    /\ pc[p] = "ov_inited"
    /\ IF initError # "nil"
       THEN Answer(p, [err |-> TRUE, why |-> DiscoveryError, info |-> NoInfo])
       ELSE /\ pc' = [pc EXCEPT ![p] = "ov_verify"]
            /\ UNCHANGED <<info, mwVars>>
    /\ UNCHANGED <<cvVars, oidcVars, extVars>>

\* lines 80-144: a nil v.verifier is a nil dereference. Otherwise the library
\* rejects the token (signature, expiry, issuer), or the claims of the ID token
\* do not decode, or they are read and checked. What the library lets through
\* as aud is not fixed by this package: any value.
OVVerify(p, cs) ==
    /\ pc[p] = "ov_verify"
    /\ IF verifier = "nil"
       THEN /\ resp' = [resp EXCEPT ![p] = resp[p] \o <<Effect("panic", 0, "", "", NoInfo)>>]
            /\ pc' = [pc EXCEPT ![p] = "idle"]
            /\ UNCHANGED <<info, req, ret, claimed>>
       ELSE \/ /\ \E w \in {"token verification failed", "failed to parse token claims"} :
                    Answer(p, Rejected(w))
               /\ claimed' = [claimed EXCEPT ![p] = NoClaims]
            \/ \E claims \in cs :
                  /\ Answer(p, OIDCResult(claims, req[p].token, config))
                  /\ claimed' = [claimed EXCEPT ![p] = claims]
    /\ UNCHANGED <<cvVars, oidcVars, ctorVars, auxVars, pureVars, ir, entered>>

\* the state after construction: NewBearerAuthMiddleware(cfg, b, logger) with
\* b the verifier that NewCachingVerifier or NewVerifier returned
Constructed(cfg, b) ==
    /\ pc = [p \in Procs |-> "idle"]
    /\ tok = [p \in Procs |-> <<>>]
    /\ info = [p \in Procs |-> NoInfo]
    /\ ev = NoEv
    /\ now = 0
    /\ ttl = b.ttl
    /\ cache = <<>>
    /\ lastDone = [t \in Tokens |-> NotDone]
    /\ req = [p \in Procs |-> NoReq]
    /\ resp = [p \in Procs |-> <<>>]
    /\ once = "new"
    /\ initError = "nil"
    /\ verifier = "nil"
    /\ discoveries = 0
    /\ config = cfg
    /\ metadataURL = GetMetadataURL(cfg.ResourceServerURL)
    /\ built = b
    /\ rs = NoRS
    /\ val = NoVal
    /\ claimed = [p \in Procs |-> NoClaims]
    /\ ir = [p \in Procs |-> NoCall]
    /\ ret = [p \in Procs |-> NoRet]
    /\ entered = [p \in Procs |-> NoEntered]
    /\ mh = NoMH
    /\ cancelled = [p \in Procs |-> FALSE]
    /\ heap = <<>>
    /\ held = [p \in Procs |-> 0]
    /\ verifiedAt = <<>>

\* NewCachingVerifier(verifier, c) for any configured c
Init ==
    \E c \in -1 .. MaxTTL :
        Constructed(BaseConfig, NewCachingVerifier(AnyVerifier, c)) /\ fn = NoFn

\* the same, with the call of the constructor remembered; two negative values
InitTTL ==
    \E c \in -2 .. MaxTTL :
        /\ Constructed(BaseConfig, NewCachingVerifier(AnyVerifier, c))
        /\ fn = Called("NewCachingVerifier", <<c>>, NewCachingVerifier(AnyVerifier, c))

\* NewCachingVerifier(verifier, c) with the longest TTL of the model
InitOwn == Constructed(BaseConfig, NewCachingVerifier(AnyVerifier, MaxTTL)) /\ fn = NoFn

\* NewVerifier(cfg) for the configurations of a running server
InitNewVerifier == \E cfg \in CtorConfigs : Constructed(cfg, NewVerifier(cfg)) /\ fn = NoFn

\* NewVerifier(cfg) for Configs that were not validated
InitStrategies ==
    \E cfg \in StrategyConfigs : Constructed(cfg, NewVerifier(cfg)) /\ fn = NoFn
InitStack ==
    \E cfg \in StackConfigs : Constructed(cfg, NewVerifier(cfg)) /\ fn = NoFn

InitShared ==
    \E cfg \in SharedConfigs : Constructed(cfg, NewVerifier(cfg)) /\ fn = NoFn

\* a middleware over an arbitrary TokenVerifier
InitMW ==
    \E u \in ResourceServerURLs :
        /\ Constructed([BaseConfig EXCEPT !.ResourceServerURL = u],
                       NewCachingVerifier(AnyVerifier, FiveMinutes * TicksPerSec))
        /\ fn = NoFn

\* a middleware over the OIDCVerifier that NewVerifier makes when no endpoint is set
InitOIDC == InitNewVerifier /\ built.verifier.kind = "oidc"

\* the client whose requests SpecMW follows one after the other
Client == "r1"

Next ==
    \/ \E p \in Procs, t \in Tokens : CVLoad(p, t)
    \/ \E p \in Procs : CVDelete(p)
    \/ \E p \in Procs : CVWrapped(p)
    \/ \E p \in Procs : CVStore(p)
    \/ Tick

\* concurrent callers of CachingVerifier.Verify
Spec == Init /\ [][Next]_vars

NextTTL ==
    \/ \E t \in Tokens : CVLoad(Client, t)
    \/ CVDelete(Client)
    \/ CVWrapped(Client)
    \/ CVStore(Client)
    \/ Tick

\* one caller of CachingVerifier.Verify, for every TTL NewCachingVerifier is given
SpecTTL == InitTTL /\ [][NextTTL]_vars

NextOwn ==
    \/ \E p \in Procs, t \in Tokens : PLoad(p, t)
    \/ \E p \in Procs : PVerify(p)
    \/ \E p \in Procs, scopes \in Edits : PWrite(p, scopes)
    \/ Tick

\* concurrent callers of CachingVerifier.Verify that may write to the TokenInfo
\* they were given
SpecOwn == InitOwn /\ [][NextOwn]_vars

NextAge ==
    \/ \E t \in Tokens : CVLoad(Client, t)
    \/ CVDelete(Client)
    \/ CVWrappedAt(Client)
    \/ CVStore(Client)
    \/ Tick

\* one caller of CachingVerifier.Verify, with the instants at which the wrapped
\* verifier returned
SpecAge == Init /\ [][NextAge]_vars

NextScopes == \E scopes \in ScopeLists, ctx \in Contexts : RSServe(scopes, ctx)

\* requests through RequireScopes, over every list of required scopes and every context
SpecScopes == InitMW /\ [][NextScopes]_vars

\* line 309 of CachingVerifier.Verify, on a miss: the call goes to the verifier
\* that NewVerifier chose
NextNew ==
    \/ \E path \in Paths, h \in FewHeaders : MWServe(Client, path, h)
    \/ built.verifier.kind = "oidc" /\ OVDo(Client)
    \/ built.verifier.kind = "oidc" /\ OVDiscover(Client)
    \/ built.verifier.kind = "oidc" /\ OVInitReturn(Client)
    \/ built.verifier.kind = "oidc" /\ OVVerify(Client, AllClaims)
    \/ built.verifier.kind = "introspection" /\ IVRequest(Client)
    \/ built.verifier.kind = "introspection" /\ IVResponse(Client, AllClaims)

\* requests through Wrap to the verifier that NewVerifier made of the Config
SpecNew == InitStrategies /\ [][NextNew]_vars

\* Wrap, CachingVerifier.Verify and the strategy's Verify, for one client. The
\* strategy is entered from line 309, after a miss.
NextStack ==
    \/ \E path \in Paths, h \in StackHeaders : MWServe(Client, path, h)
    \/ SVLoad(Client)
    \/ built.verifier.kind = "oidc" /\ ret[Client].stage = "missed" /\ OVDo(Client)
    \/ built.verifier.kind = "oidc" /\ OVDiscover(Client)
    \/ built.verifier.kind = "oidc" /\ OVInitReturn(Client)
    \/ built.verifier.kind = "oidc" /\ OVVerify(Client, StackClaims)
    \/ built.verifier.kind = "introspection" /\ ret[Client].stage = "missed"
           /\ IVRequest(Client)
    \/ built.verifier.kind = "introspection" /\ IVResponse(Client, StackClaims)
    \/ SVReturn(Client)
    \/ Tick

\* requests through Wrap to the verifier NewVerifier returned, cache included
SpecStack == InitStack /\ [][NextStack]_vars

NextShared ==
    \/ \E p \in Procs, h \in SharedHeaders : MWServe(p, "/mcp", h)
    \/ \E p \in Procs : SVLoad(p)
    \/ \E p \in Procs :
          built.verifier.kind = "oidc" /\ ret[p].stage = "missed" /\ OVDo(p)
    \/ \E p \in Procs : built.verifier.kind = "oidc" /\ OVDiscover(p)
    \/ \E p \in Procs : built.verifier.kind = "oidc" /\ OVInitReturn(p)
    \/ \E p \in Procs : built.verifier.kind = "oidc" /\ OVVerify(p, SharedClaims)
    \/ \E p \in Procs :
          built.verifier.kind = "introspection" /\ ret[p].stage = "missed" /\ IVRequest(p)
    \/ \E p \in Procs :
          built.verifier.kind = "introspection" /\ IVResponse(p, SharedClaims)
    \/ \E p \in Procs : SVReturn(p)

\* concurrent requests with two tokens through Wrap to the verifier NewVerifier
\* returned, cache included
SpecShared == InitShared /\ [][NextShared]_vars

NextCancel ==
    \/ \E path \in Paths, h \in StackHeaders : MWServe(Client, path, h)
    \/ Cancel(Client)
    \/ SVLoad(Client)
    \/ built.verifier.kind = "oidc" /\ ret[Client].stage = "missed" /\ OVDo(Client)
    \/ built.verifier.kind = "oidc" /\ OVDiscover(Client)
    \/ built.verifier.kind = "oidc" /\ OVInitReturn(Client)
    \/ built.verifier.kind = "oidc" /\ OVVerify(Client, StackClaims)
    \/ built.verifier.kind = "introspection" /\ ret[Client].stage = "missed"
           /\ IVRequest(Client)
    \/ built.verifier.kind = "introspection" /\ IVResponse(Client, StackClaims)
    \/ SVReturn(Client)
    \/ Tick

\* the same requests, each with a context that may be cancelled while it is served
SpecCancel == InitStack /\ [][NextCancel]_vars

\* These functions read their arguments and nothing else, and write nothing: one
\* call in a behaviour shows all a sequence of calls would.
NextPure ==
    \/ \E granted \in CasedScopeLists, required \in CasedScopeLists :
          fn.name = "" /\ CallHasAllScopes(granted, required)
    \/ \E aud \in QueriedAuds, audience \in AudienceNames :
          fn.name = "" /\ CallHasAudience(aud, audience)
    \/ \E cfg \in MetaConfigs : fn.name = "" /\ CallBuildMetadata(cfg)
    \/ \E cfg \in BothConfigs, claims \in AllClaims : fn.name = "" /\ CallVerifiers(cfg, claims)

\* the functions of the package, over the arguments of the model
SpecPure == InitMW /\ [][NextPure]_vars

\* the handler keeps the document it was built with and changes nothing: each
\* (Config, method) is followed for one request, then for a second one with
\* the same Config
NextMeta ==
    \E cfg \in MetaConfigs, method \in Methods :
        (mh.method = "" \/ (mh.cfg = cfg /\ mh.method = "GET")) /\ MHServe(cfg, method)

\* requests to the metadata handler, over every Config and method of the model
SpecMeta == InitMW /\ [][NextMeta]_vars

NextConfig == \E c \in Configs : DoValidate(c)

\* Validate, over every Config of the model
SpecConfig == InitMW /\ [][NextConfig]_vars


NextMW ==
    \/ \E path \in Paths, h \in Headers : MWServe(Client, path, h)
    \/ MWVerify(Client)

\* requests through Wrap, over every header value of the model
SpecMW == InitMW /\ [][NextMW]_vars

NextOIDC ==
    \/ \E p \in Procs, path \in Paths, h \in FewHeaders : MWServe(p, path, h)
    \/ \E p \in Procs : OVDo(p)
    \/ \E p \in Procs : OVDiscover(p)
    \/ \E p \in Procs : OVInitReturn(p)
    \/ \E p \in Procs : OVVerify(p, ClaimSets)

\* concurrent requests through Wrap with one OIDCVerifier as its verifier
SpecOIDC == InitOIDC /\ [][NextOIDC]_vars

NextInit ==
    \/ \E p \in Procs, h \in SharedHeaders : MWServe(p, "/mcp", h)
    \/ \E p \in Procs : Cancel(p)
    \/ \E p \in Procs : OVDo(p)
    \/ \E p \in Procs : OVDiscover(p)
    \/ \E p \in Procs : OVInitReturn(p)
    \/ \E p \in Procs : OVVerify(p, SharedClaims)

\* concurrent requests with two tokens to one OIDCVerifier, each with a context
\* that may be cancelled while it is served
SpecInit == InitOIDC /\ [][NextInit]_vars

-----------------------------------------------------------------------------
(* Properties of CachingVerifier, checked under Spec                       *)

\* the step just taken was the Load of a Verify call on token t
LoadedNow(t) == ev'.tok = t /\ ev'.kind \in {"hit", "miss", "stale"}

\* C1: a TokenInfo served from the cache is served strictly before its own
\* ExpiresAt (when ExpiresAt > 0), whatever the TTL. ev is the return of the
\* latest step and now the instant of that step.
C1_HitBeforeTokenExpiry ==
    (ev.kind = "hit" /\ ev.info.ExpiresAt > 0) => now < ev.info.ExpiresAt * TicksPerSec

\* a hit, some time after the store, on an entry whose TTL alone would have
\* outlived the token
C1_Witness ==
    /\ ev.kind = "hit"
    /\ ev.info.ExpiresAt > 0
    /\ ev.tok \in DOMAIN cache
    /\ cache[ev.tok].storedAt + ttl > ev.info.ExpiresAt * TicksPerSec
    /\ now > cache[ev.tok].storedAt

\* C2: every stored entry expires at min(store time + ttl, token expiry) when
\* the token's ExpiresAt > 0, and at store time + ttl when ExpiresAt is 0.
C2_EntryExpiryIsMin ==
    \A t \in DOMAIN cache :
        LET e == cache[t]
            byTTL == e.storedAt + ttl
            byToken == e.info.ExpiresAt * TicksPerSec
        IN  /\ e.info.ExpiresAt > 0 =>
                /\ e.expiresAt <= byTTL
                /\ e.expiresAt <= byToken
                /\ e.expiresAt \in {byTTL, byToken}
            /\ e.info.ExpiresAt = 0 => e.expiresAt = byTTL

\* both cases stored: an entry cut short by its token, and one of unknown expiry
C2_Witness ==
    \E t, u \in DOMAIN cache :
        /\ cache[t].info.ExpiresAt > 0
        /\ cache[t].expiresAt < cache[t].storedAt + ttl
        /\ cache[u].info.ExpiresAt = 0
        /\ cache[u].storedAt > 0

\* C3 as stated: after a successful Verify(t), the next Verify(t) within the TTL
\* window of that call is a hit: it returns the same TokenInfo and ends at its
\* Load, before the wrapped verifier.
C3_MemoWithinTTL ==
    [][\A t \in Tokens :
         (lastDone[t].st = "ok" /\ now < lastDone[t].at + ttl /\ LoadedNow(t))
         => (ev'.kind = "hit" /\ ev'.info = lastDone[t].info /\ pc' = pc)]_vars

\* C3 as amended: ... within the TTL window and before the token's own
\* ExpiresAt (when that is > 0) ...
C3_MemoWithinEntryLife ==
    [][\A t \in Tokens :
         (/\ lastDone[t].st = "ok"
          /\ now < lastDone[t].at + ttl
          /\ (lastDone[t].info.ExpiresAt > 0 =>
                 now < lastDone[t].info.ExpiresAt * TicksPerSec)
          /\ LoadedNow(t))
         => (ev'.kind = "hit" /\ ev'.info = lastDone[t].info /\ pc' = pc)]_vars

\* the second call, later than the first, served from the cache
C3_Witness ==
    /\ ev.kind = "hit"
    /\ lastDone[ev.tok].st = "ok"
    /\ lastDone[ev.tok].info = ev.info
    /\ now > lastDone[ev.tok].at

\* C4: a failed verification is not cached. The step in which the wrapped
\* verifier fails returns the error to the caller and leaves the cache as it
\* was; after a failed call the cache has no entry for the token; and the next
\* call on the token goes to the wrapped verifier again.
C4_NoNegativeCaching ==
    [][/\ ev'.kind = "error" =>
            /\ cache' = cache
            /\ \E p \in Procs : pc[p] = "cv_verify" /\ pc'[p] = "idle"
       /\ \A t \in Tokens : lastDone'[t].st = "err" => t \notin DOMAIN cache'
       /\ \A t \in Tokens :
            (lastDone[t].st = "err" /\ LoadedNow(t))
            => (ev'.kind = "miss" /\ \E p \in Procs : pc'[p] = "cv_verify" /\ tok'[p] = t)
      ]_vars

\* a call that ran alone on its token has just failed, some time after the start
C4_Witness ==
    /\ ev.kind = "error"
    /\ lastDone[ev.tok].st = "err"
    /\ now > 0

-----------------------------------------------------------------------------
(* Properties of OIDCVerifier, checked under SpecOIDC                      *)

\* the Verify call of request p has got past v.init, or has returned
PastInit(p) == pc[p] \in {"ov_inited", "ov_verify"} \/ req[p].verified # "no"

\* C5: provider discovery is attempted at most once in any interleaving, and
\* exactly once as soon as any Verify call has got past init.
C5_DiscoveryExactlyOnce ==
    /\ discoveries <= 1
    /\ \A p \in Procs : PastInit(p) => discoveries = 1

\* two requests have had their Verify call answered, after one discovery
C5_Witness ==
    /\ discoveries = 1
    /\ \A p \in Procs : req[p].verified # "no"

\* C6: a Verify call gets past init only once the discovery attempt has
\* finished and its outcome is set (the verifier, or the stored error); it
\* reaches the token's verification only with the verifier set; and while the
\* attempt runs, exactly one call runs it.
C6_CallersWaitForDiscovery ==
    /\ \A p \in Procs :
         /\ PastInit(p) =>
              /\ once = "done"
              /\ (initError = "failed" /\ verifier = "nil") \/
                 (initError = "nil" /\ verifier = "set")
         /\ pc[p] = "ov_verify" => (verifier = "set" /\ initError = "nil")
         /\ \A i \in 1 .. Len(resp[p]) : resp[p][i].act # "panic"
    /\ once = "running" <=> Cardinality({p \in Procs : pc[p] = "ov_discover"}) = 1
    /\ Cardinality({p \in Procs : pc[p] = "ov_discover"}) <= 1

\* both requests are verifying their tokens after the one discovery
C6_Witness ==
    /\ \A p \in Procs : pc[p] = "ov_verify"
    /\ discoveries = 1

\* the request of p has come to its end in the step just taken
CompletedNow(p) ==
    /\ pc'[p] = "idle"
    /\ <<pc[p], req[p], resp[p]>> # <<pc'[p], req'[p], resp'[p]>>

\* the response is one denial with status 401, and the next handler has not run
Denied(fx) == Len(fx) = 1 /\ fx[1].act = "deny" /\ fx[1].status = 401

\* what C7 says of a step taken after the discovery has failed, for the
\* requests to the paths in scope
StickyFailure(scope) ==
    initError = "failed" =>
        /\ initError' = "failed"
        /\ verifier' = "nil"
        /\ discoveries' = discoveries
        /\ \A p \in Procs :
             /\ pc'[p] \notin {"ov_discover", "ov_verify"}
             /\ req'[p].verified \notin {"no", DiscoveryError} => req'[p] = req[p]
             /\ (CompletedNow(p) /\ req'[p].path \in scope) => Denied(resp'[p])

\* C7 as stated: once discovery has failed, the failure stays, discovery is not
\* run again, no token is verified, every Verify call returns the stored
\* error, and every request through the middleware is denied.
C7_StickyDenyAll == [][StickyFailure(Paths)]_vars

\* C7 as amended: ... and every request through the middleware to a path other
\* than the metadata path is denied.
C7_StickyDenyProtected == [][StickyFailure(Paths \ {MetadataPath})]_vars

\* after the failed discovery, both requests carried a Bearer token to the
\* verifier, got the stored error back and were denied
C7_Witness ==
    /\ initError = "failed"
    /\ discoveries = 1
    /\ \A p \in Procs : req[p].verified = DiscoveryError /\ Denied(resp[p])

-----------------------------------------------------------------------------
(* Properties of BearerAuthMiddleware, checked under SpecMW                *)

CountOf(fx, a) == Cardinality({i \in 1 .. Len(fx) : fx[i].act = a})

\* C8: a request to a path other than the metadata path ends in exactly one of
\* two ways: the next handler has run once, with the TokenInfo that the
\* verifier returned for this request's token in its context, or one denial
\* has been written and the next handler has not run. Until the verifier has
\* answered, neither has happened.
C8_HandlerXorDenial ==
    \A p \in Procs :
        req[p].path \notin {"", MetadataPath} =>
            /\ pc[p] # "idle" => (resp[p] = <<>> /\ req[p].verified = "no")
            /\ pc[p] = "idle" =>
                 /\ CountOf(resp[p], "next") + CountOf(resp[p], "deny") = 1
                 /\ Len(resp[p]) = 1
                 /\ resp[p][1].act = "deny" => resp[p][1].status \in {401, 403}
                 /\ resp[p][1].act = "next" =>
                      /\ req[p].verified = "ok"
                      /\ resp[p][1].ctx = info[p]
                      /\ info[p].Token = req[p].token
                      /\ req[p].token # <<>>

\* a request to the protected route whose token the verifier accepted
C8_Witness ==
    \E p \in Procs :
        /\ req[p].path = "/mcp"
        /\ pc[p] = "idle"
        /\ req[p].verified = "ok"
        /\ resp[p] # <<>>
        /\ resp[p][1].act = "next"

\* C9: a request to the metadata path is forwarded to the next handler,
\* whatever its Authorization header: the verifier is not called and no
\* TokenInfo is attached.
C9_MetadataBypass ==
    \A p \in Procs :
        req[p].path = MetadataPath =>
            /\ pc[p] = "idle"
            /\ req[p].verified = "no"
            /\ Len(resp[p]) = 1
            /\ resp[p][1].act = "next"
            /\ resp[p][1].ctx = NoInfo
            /\ info[p] = NoInfo

\* a metadata request that carries a well-formed Bearer token
C9_Witness ==
    \E p \in Procs :
        /\ req[p].path = MetadataPath
        /\ HasPrefix(req[p].hdr, BearerPrefix)
        /\ req[p].hdr[Len(req[p].hdr)] = "x"
        /\ resp[p] # <<>>

AllSpace(str) == \A i \in 1 .. Len(str) : IsSpace(str[i])
\* no Authorization header, or "Bearer " followed by nothing but white space
NoBearerToken(h) ==
    \/ h = <<>>
    \/ /\ Len(h) >= Len(BearerPrefix)
       /\ \A i \in 1 .. Len(BearerPrefix) : h[i] = BearerPrefix[i]
       /\ AllSpace(SubSeq(h, Len(BearerPrefix) + 1, Len(h)))

\* what C10 says of the requests to the paths in scope
EmptyTokenDenied(scope) ==
    \A p \in Procs :
        /\ (req[p].path \in scope /\ NoBearerToken(req[p].hdr)) =>
              /\ pc[p] = "idle"
              /\ req[p].verified = "no"
              /\ Len(resp[p]) = 1
              /\ resp[p][1].act = "deny"
              /\ resp[p][1].status = 401
              /\ resp[p][1].error = "invalid_request"
        /\ (pc[p] = "mw_verify" \/ req[p].verified # "no") =>
              /\ req[p].token # <<>>
              /\ ~IsSpace(req[p].token[1])
              /\ ~IsSpace(req[p].token[Len(req[p].token)])

\* C10 as stated: a request with no Authorization header, or with a Bearer
\* header whose token is empty or all white space, is denied with 401 and
\* invalid_request without the verifier being called; and the verifier is only
\* ever called with a non-empty token that neither starts nor ends with white
\* space.
C10_EmptyTokenDeniedAnyPath == EmptyTokenDenied(Paths)

\* C10 as amended: a request to a path other than the metadata path with no
\* Authorization header, or ... (the rest as stated).
C10_EmptyTokenDeniedProtected == EmptyTokenDenied(Paths \ {MetadataPath})

\* a denied request whose header is "Bearer " and then white space only
C10_Witness ==
    \E p \in Procs :
        /\ req[p].path = "/mcp"
        /\ Len(req[p].hdr) > Len(BearerPrefix)
        /\ NoBearerToken(req[p].hdr)
        /\ resp[p] # <<>>
        /\ resp[p][1].error = "invalid_request"

\* a header value that is present and does not begin with the seven characters
\* of "Bearer ", compared one by one
WrongScheme(h) ==
    /\ h # <<>>
    /\ \/ Len(h) < 7
       \/ <<h[1], h[2], h[3], h[4], h[5], h[6], h[7]>> # <<"B", "e", "a", "r", "e", "r", " ">>

\* what C11 says of the requests to the paths in scope
WrongSchemeDenied(scope) ==
    \A p \in Procs :
        (req[p].path \in scope /\ WrongScheme(req[p].hdr)) =>
            /\ pc[p] = "idle"
            /\ req[p].verified = "no"
            /\ req[p].token = <<>>
            /\ Len(resp[p]) = 1
            /\ resp[p][1].act = "deny"
            /\ resp[p][1].status = 401
            /\ resp[p][1].error = "invalid_request"

\* C11 as stated: a request whose Authorization header is present but does not
\* start with the exact, case-sensitive prefix "Bearer " is denied with 401 and
\* invalid_request, and the verifier is not called.
C11_WrongSchemeDeniedAnyPath == WrongSchemeDenied(Paths)

\* C11 as amended: the same, of a request to a path other than the metadata path.
C11_WrongSchemeDeniedProtected == WrongSchemeDenied(Paths \ {MetadataPath})

\* a denied request to the protected route whose header is "bearer x"
C11_Witness ==
    \E p \in Procs :
        /\ req[p].path = "/mcp"
        /\ req[p].hdr = <<"b", "e", "a", "r", "e", "r", " ", "x">>
        /\ resp[p] # <<>>
        /\ resp[p][1].error = "invalid_request"

-----------------------------------------------------------------------------
(* Properties of the denials                                               *)

\* the verifier answered the request of p with an error
Failed(p) == req[p].verified \notin {"no", "ok"}

\* C12: a request whose token the verifier rejected, for whatever reason
\* (the library's verification, the claims, the audience, the scopes, a failed
\* discovery), is denied with 401 and invalid_token, and the responses to any
\* two such requests are equal in status, headers and body.
C12_UniformInvalidToken ==
    /\ \A p \in Procs :
          Failed(p) =>
             /\ Len(resp[p]) = 1
             /\ resp[p][1].act = "deny"
             /\ resp[p][1].status = 401
             /\ Contains(resp[p][1].wwwAuthenticate, "error=\"invalid_token\"")
             /\ Contains(resp[p][1].body, "{\"error\":\"invalid_token\"")
             /\ ~Contains(resp[p][1].wwwAuthenticate, req[p].verified)
             /\ ~Contains(resp[p][1].body, req[p].verified)
    /\ \A p, q \in Procs : (Failed(p) /\ Failed(q)) => resp[p] = resp[q]

\* two requests rejected for different reasons
C12_Witness ==
    /\ \A p \in Procs : Failed(p) /\ pc[p] = "idle" /\ resp[p] # <<>>
    /\ req["r1"].verified = "token audience does not match expected audience"
    /\ req["r2"].verified = "token verification failed"

\* the error codes of RFC 6750 that Wrap uses
ErrorCodes == {"invalid_request", "invalid_token"}

\* the configured resource-server URL less one trailing slash, and the
\* well-known path
ExpectedMetadataURL ==
    LET u == config.ResourceServerURL
        n == Len(u)
    IN  (IF n > 0 /\ SubSeq(u, n, n) = "/" THEN SubSeq(u, 1, n - 1) ELSE u)
            \o "/.well-known/oauth-protected-resource"

\* C13: every denial written by the middleware has status 401 and a
\* WWW-Authenticate header Bearer realm="mcp", resource_metadata="<metadata
\* URL>", error="<code>", error_description="<text>", where the metadata URL is
\* the configured resource-server URL with one trailing slash removed plus the
\* well-known path, and the body carries the same error code.
C13_DenialForm ==
    \A p \in Procs : \A i \in 1 .. Len(resp[p]) :
        resp[p][i].act = "deny" =>
            /\ resp[p][i].status = 401
            /\ resp[p][i].description # ""
            /\ \E code \in ErrorCodes :
                  /\ resp[p][i].wwwAuthenticate =
                        "Bearer realm=\"mcp\", resource_metadata=\"" \o ExpectedMetadataURL
                           \o "\", error=\"" \o code
                           \o "\", error_description=\"" \o resp[p][i].description \o "\""
                  /\ resp[p][i].body =
                        "{\"error\":\"" \o code \o "\",\"error_description\":\""
                           \o resp[p][i].description \o "\"}"

\* a denial by a middleware whose resource-server URL ends in two slashes
C13_Witness ==
    /\ HasSuffix(config.ResourceServerURL, "//")
    /\ \E p \in Procs :
          /\ resp[p] # <<>>
          /\ resp[p][1].act = "deny"
          /\ resp[p][1].error = "invalid_token"

-----------------------------------------------------------------------------
(* Properties of RequireScopes, checked under SpecScopes                   *)

\* the elements of a list
Elems(l) == {l[i] : i \in 1 .. Len(l)}

\* the request context carries a TokenInfo, and the scopes of that TokenInfo
Carries(ctx) == "oauth:token_info" \in DOMAIN ctx
ScopesOf(ctx) == Elems(ctx["oauth:token_info"].Scopes)

\* C14: a request through RequireScopes(s...) reaches the next handler if and
\* only if its context carries a TokenInfo whose scopes include every scope of
\* s; with no TokenInfo in the context the response is 401, with a TokenInfo
\* that lacks a required scope it is 403, and in both cases the next handler
\* does not run.
C14_RequireScopes ==
    rs.fx # <<>> =>
        /\ Len(rs.fx) = 1
        /\ rs.fx[1].act = "next" <=>
              (Carries(rs.ctx) /\ Elems(rs.scopes) \subseteq ScopesOf(rs.ctx))
        /\ ~Carries(rs.ctx) => (rs.fx[1].act = "deny" /\ rs.fx[1].status = 401)
        /\ (Carries(rs.ctx) /\ ~(Elems(rs.scopes) \subseteq ScopesOf(rs.ctx))) =>
              (rs.fx[1].act = "deny" /\ rs.fx[1].status = 403)

\* a token that has one of two required scopes, and is refused
C14_Witness ==
    /\ Carries(rs.ctx)
    /\ Elems(rs.scopes) = {"mcp:tools", "mcp:admin"}
    /\ ScopesOf(rs.ctx) = {"mcp:tools"}
    /\ rs.fx # <<>>
    /\ rs.fx[1].status = 403

-----------------------------------------------------------------------------
(* Properties of Config.Validate, checked under SpecConfig                 *)

\* C15: Validate returns no error for a Config with Enabled = false, whatever
\* its other fields are.
C15_DisabledIsValid ==
    (val.done /\ ~val.cfg.Enabled) => val.err = ""

\* a disabled Config with nothing set but an unparseable introspection endpoint
C15_Witness ==
    /\ val.done
    /\ ~val.cfg.Enabled
    /\ val.cfg.Issuer = "" /\ val.cfg.Audience = "" /\ val.cfg.ResourceServerURL = ""
    /\ val.cfg.IntrospectionEndpoint = ":8080/mcp"
    /\ val.cfg.ClientID = "" /\ val.cfg.ClientSecret = ""

\* C16: for an enabled Config the error of Validate names every violated rule,
\* not the first one only: each of issuer, audience and resource_server_url
\* that is missing is named, and so are an unparseable URL and missing client
\* credentials, in every combination.
C16_AllViolationsReported ==
    (val.done /\ val.cfg.Enabled) =>
        /\ val.cfg.Issuer = "" => Contains(val.err, "issuer is required")
        /\ val.cfg.Audience = "" => Contains(val.err, "audience is required")
        /\ val.cfg.ResourceServerURL = "" =>
              Contains(val.err, "resource_server_url is required")
        /\ val.cfg.Issuer = ":8080/mcp" => Contains(val.err, "issuer must be a valid URL")
        /\ val.cfg.ResourceServerURL = ":8080/mcp" =>
              Contains(val.err, "resource_server_url must be a valid URL")
        /\ val.cfg.IntrospectionEndpoint = ":8080/mcp" =>
              Contains(val.err, "introspection_endpoint must be a valid URL")
        /\ (val.cfg.IntrospectionEndpoint # ""
              /\ (val.cfg.ClientID = "" \/ val.cfg.ClientSecret = "")) =>
              Contains(val.err, "client_id and client_secret are required")

\* an enabled Config with issuer, audience and resource-server URL all missing
C16_Witness ==
    /\ val.done
    /\ val.cfg.Enabled
    /\ val.cfg.Issuer = "" /\ val.cfg.Audience = "" /\ val.cfg.ResourceServerURL = ""
    /\ val.err # ""

\* a setting that is present and that url.Parse accepts
SetAndParseable(u) == u \in {"https://idp.example.com", "https://mcp.example.com",
                             "https://idp.example.com/introspect"}

\* C17: for an enabled Config, Validate returns no error if and only if issuer
\* and resource-server URL are set and parseable, audience is set, and, when
\* an introspection endpoint is set, it is parseable and client id and client
\* secret are both set.
C17_ValidIff ==
    (val.done /\ val.cfg.Enabled) =>
        (val.err = "" <=>
            /\ SetAndParseable(val.cfg.Issuer)
            /\ val.cfg.Audience # ""
            /\ SetAndParseable(val.cfg.ResourceServerURL)
            /\ val.cfg.IntrospectionEndpoint # "" =>
                  /\ SetAndParseable(val.cfg.IntrospectionEndpoint)
                  /\ val.cfg.ClientID # ""
                  /\ val.cfg.ClientSecret # "")

\* an enabled Config that is in order but for an empty client secret
C17_Witness ==
    /\ val.done
    /\ val.cfg.Enabled
    /\ val.cfg.Issuer = "https://idp.example.com"
    /\ val.cfg.Audience # ""
    /\ val.cfg.ResourceServerURL = "https://mcp.example.com"
    /\ val.cfg.IntrospectionEndpoint = "https://idp.example.com/introspect"
    /\ val.cfg.ClientID = "mcp"
    /\ val.cfg.ClientSecret = ""
    /\ val.err # ""

-----------------------------------------------------------------------------
(* Properties of NewVerifier and the two strategies, checked under SpecNew *)

\* what C18 says of a state: the verifier in use is a cache with the 5 minute
\* TTL around one strategy, introspection exactly when the endpoint is set, and
\* only that strategy has done anything
StrategyByEndpoint ==
    /\ built.kind = "caching"
    /\ built.ttl = 300 * TicksPerSec
    /\ ttl = built.ttl
    /\ built.verifier.kind \in {"oidc", "introspection"}
    /\ built.verifier.kind = "introspection" <=> config.IntrospectionEndpoint # ""
    /\ built.verifier.kind = "oidc" <=> config.IntrospectionEndpoint = ""
    /\ (\E p \in Procs : ir[p].calls > 0) => config.IntrospectionEndpoint # ""
    /\ (discoveries > 0 \/ once # "new") => config.IntrospectionEndpoint = ""

\* C18: NewVerifier selects one strategy at construction, the introspection
\* verifier if and only if Config.IntrospectionEndpoint is non-empty and the
\* OIDC verifier otherwise, always inside a CachingVerifier, and the choice
\* never changes afterwards.
C18_StrategyChosenOnce == [](StrategyByEndpoint) /\ [][built' = built /\ config' = config]_vars

\* a request answered by the introspection endpoint of a Config that sets one
C18_Witness ==
    /\ config.IntrospectionEndpoint = "https://idp.example.com/introspect"
    /\ ir[Client].calls = 1
    /\ req[Client].verified = "ok"

\* the call of the introspection endpoint returned 200 with a decodable body
\* whose active field is true
ActiveResponse(o) ==
    /\ o.transport = "ok"
    /\ o.status = 200
    /\ o.body.decodes
    /\ o.body.active

\* C19: IntrospectionVerifier.Verify returns a TokenInfo only if the call
\* completed with status 200, the body decoded and active is true; a transport
\* failure, another status, an undecodable body and active = false each give
\* an error, and the request is denied with 401 and invalid_token.
C19_IntrospectionGate ==
    \A p \in Procs :
        (built.verifier.kind = "introspection" /\ req[p].verified # "no") =>
            /\ req[p].verified = "ok" => (ir[p].calls = 1 /\ ActiveResponse(ir[p].out))
            /\ ~ActiveResponse(ir[p].out) =>
                  /\ Failed(p)
                  /\ info[p] = NoInfo
                  /\ Len(resp[p]) = 1
                  /\ resp[p][1].act = "deny"
                  /\ resp[p][1].status = 401
                  /\ resp[p][1].error = "invalid_token"

\* a request denied because the endpoint answered 200 with active = false
C19_Witness ==
    /\ ir[Client].calls = 1
    /\ ir[Client].out.status = 200
    /\ ir[Client].out.body.decodes
    /\ ~ir[Client].out.body.active
    /\ req[Client].verified = "token is not active"
    /\ resp[Client] # <<>>
    /\ resp[Client][1].error = "invalid_token"

\* an aud claim that is a single string or an array of strings
WellShaped(aud) ==
    \/ aud.t = "string"
    \/ aud.t = "array" /\ \A i \in 1 .. Len(aud.items) : aud.items[i].t = "string"
\* how many audience values the claim holds
AudCount(aud) == IF aud.t = "array" THEN Len(aud.items) ELSE 1

\* C20: in both verifiers a token whose aud claim is neither a single string
\* nor an array of strings (a number, an object, an array with an element that
\* is not a string) is rejected with an error, and no value of the claim is
\* silently left out of the audience of an accepted token.
C20_AudienceShapeChecked ==
    \A p \in Procs :
        req[p].verified = "ok" =>
            /\ WellShaped(claimed[p].aud)
            /\ Len(info[p].Audience) = AudCount(claimed[p].aud)

\* C20 for the OIDC verifier alone, and for the introspection verifier alone
C20_OIDCOnly == built.verifier.kind = "oidc" => C20_AudienceShapeChecked
C20_IntrospectionOnly == built.verifier.kind = "introspection" => C20_AudienceShapeChecked

-----------------------------------------------------------------------------
(* The two strategies compared, checked under SpecPure                     *)

\* str without one trailing slash
StripSlash(str) ==
    IF Len(str) > 0 /\ SubSeq(str, Len(str), Len(str)) = "/"
    THEN SubSeq(str, 1, Len(str) - 1)
    ELSE str
\* the strings of an aud claim
AudStrings(aud) ==
    IF aud.t = "string" THEN {aud.s}
    ELSE IF aud.t = "array"
    THEN {aud.items[i].s : i \in {j \in 1 .. Len(aud.items) : aud.items[j].t = "string"}}
    ELSE {}

\* both results are errors, or both are TokenInfos that agree on Subject,
\* Scopes, Audience, ExpiresAt, IssuedAt and Issuer
SameOutcome(a, b) ==
    /\ a.err = b.err
    /\ ~a.err =>
          /\ a.info.Subject = b.info.Subject
          /\ a.info.Scopes = b.info.Scopes
          /\ a.info.Audience = b.info.Audience
          /\ a.info.ExpiresAt = b.info.ExpiresAt
          /\ a.info.IssuedAt = b.info.IssuedAt
          /\ a.info.Issuer = b.info.Issuer

\* C21: given the same Config and the same claim values from a token that
\* passes the strategy's primary trust check, OIDCVerifier and
\* IntrospectionVerifier give the same outcome: both reject, or both accept
\* with equal Subject, Scopes, Audience, ExpiresAt, IssuedAt and Issuer, also
\* when the aud claim is absent or has an unrecognised shape.
C21_SameOutcome ==
    fn.name = "Verify" => SameOutcome(fn.out.oidc, fn.out.introspection)

\* what does hold: the outcomes agree whenever the Config names an audience, or
\* the aud claim is a string or an array
SameOutcomeButForAudShape ==
    (/\ fn.name = "Verify"
     /\ fn.args[1].Audience # "" \/ fn.args[2].aud.t \in {"string", "array"})
        => SameOutcome(fn.out.oidc, fn.out.introspection)
\* the divergence: no expected audience, no aud claim; OIDC accepts,
\* introspection rejects
AudAbsentDiverges ==
    /\ fn.name = "Verify"
    /\ fn.args[1].Audience = ""
    /\ fn.args[2].aud = JScalar(JNil)
    /\ ~fn.out.oidc.err
    /\ fn.out.introspection.err
    /\ fn.out.introspection.why = "unexpected type for audience claim"

-----------------------------------------------------------------------------
(* The scopes of an accepted token, checked under SpecNew                  *)

\* the strategy's primary trust check passed and the claims were read: the
\* library verified the ID token, or the endpoint answered 200 with active true
TrustChecked(p) ==
    /\ claimed[p] # NoClaims
    /\ built.verifier.kind = "introspection" =>
          /\ ir[p].out.transport = "ok"
          /\ ir[p].out.status = 200
          /\ ir[p].out.body.decodes
          /\ ir[p].out.body.active
\* such a token whose aud is one string, the expected audience if one is configured
PlainlyValid(p) ==
    /\ TrustChecked(p)
    /\ claimed[p].aud.t = "string"
    /\ config.Audience # "" => claimed[p].aud.s = config.Audience

\* C22: the token's space-delimited scope string is split on single spaces
\* into the scopes of the TokenInfo, and an empty string gives no scopes; with
\* the required scope mcp:tools and a valid token whose scope string is
\* "mcp:tools extra:scope" the request reaches the protected handler with
\* TokenInfo.Scopes = {"mcp:tools", "extra:scope"}.
C22_ScopesSplit ==
    \A p \in Procs :
        /\ req[p].verified = "ok" =>
              /\ claimed[p].scope = "" => info[p].Scopes = <<>>
              /\ claimed[p].scope # "" =>
                    /\ Join(info[p].Scopes, " ") = claimed[p].scope
                    /\ \A i \in 1 .. Len(info[p].Scopes) : ~Contains(info[p].Scopes[i], " ")
        /\ (/\ PlainlyValid(p)
            /\ config.RequiredScopes = <<"mcp:tools">>
            /\ claimed[p].scope = "mcp:tools extra:scope"
            /\ req[p].verified # "no")
           => /\ req[p].verified = "ok"
              /\ info[p].Scopes = <<"mcp:tools", "extra:scope">>
              /\ resp[p] = <<ServeNext(info[p])>>

\* the scenario, through the introspection verifier
C22_Witness ==
    /\ built.verifier.kind = "introspection"
    /\ PlainlyValid(Client)
    /\ config.RequiredScopes = <<"mcp:tools">>
    /\ claimed[Client].scope = "mcp:tools extra:scope"
    /\ resp[Client] # <<>>
    /\ resp[Client][1].act = "next"
    /\ resp[Client][1].ctx.Scopes = <<"mcp:tools", "extra:scope">>

-----------------------------------------------------------------------------
(* Properties of the verifier NewVerifier returns, cache included, checked *)
(* under SpecStack                                                          *)

\* the TokenInfo the protected handler was called with, if it was called
Reached(p) == resp[p] # <<>> /\ resp[p][Len(resp[p])].act = "next" /\ req[p].path # MetadataPath
Served(p) == resp[p][Len(resp[p])].ctx

\* the post-checks of the Config on a TokenInfo: the expected audience is among
\* its audiences, one trailing slash apart, and every required scope is among
\* its scopes
PostChecksOn(auds, scopes) ==
    /\ config.Audience # "" => \E a \in auds : StripSlash(a) = StripSlash(config.Audience)
    /\ Elems(config.RequiredScopes) \subseteq scopes
PostChecks(i) == PostChecksOn(Elems(i.Audience), Elems(i.Scopes))

\* C23: every TokenInfo that reaches a protected handler, freshly verified or
\* served from the cache, satisfies the post-checks of the Config: a configured
\* audience is in the token's audience set (a trailing slash ignored) and every
\* required scope is in its scope set; a token that fails either check is
\* rejected at verification.
C23_PostChecksHold ==
    \A p \in Procs :
        /\ Reached(p) => Served(p) # NoInfo /\ PostChecks(Served(p))
        /\ \A t \in DOMAIN cache : PostChecks(cache[t].info)
        /\ (ret[p].stage = "returned" /\ TrustChecked(p)
              /\ ~PostChecksOn(AudStrings(claimed[p].aud),
                               Elems(ParseScopes(claimed[p].scope))))
           => ret[p].o.err /\ ~Reached(p)

\* a TokenInfo served from the cache to the handler, under a Config with an
\* audience and a required scope, for a token whose audience ends in a slash
C23_Witness ==
    /\ ret[Client].stage = "hit"
    /\ Reached(Client)
    /\ config.Audience = "https://mcp.example.com"
    /\ config.RequiredScopes = <<"mcp:tools">>
    /\ Served(Client).Audience = <<"https://mcp.example.com/">>
    /\ Served(Client).Scopes = <<"mcp:tools", "extra:scope">>

\* C24: for every verifier (OIDC, introspection, caching) and every input,
\* Verify returns either a TokenInfo that is not nil and no error, or no
\* TokenInfo and an error: a failure at any step never returns a partial
\* TokenInfo.
C24_InfoXorError ==
    \A p \in Procs :
        /\ ret[p].stage \in {"returned", "hit"} =>
              IF ret[p].o.err
              THEN ret[p].o.info = NoInfo /\ ret[p].o.why # ""
              ELSE ret[p].o.info # NoInfo /\ ret[p].o.info.Token = req[p].token
        /\ req[p].verified # "no" =>
              IF req[p].verified = "ok"
              THEN info[p] # NoInfo /\ info[p].Token = req[p].token
              ELSE info[p] = NoInfo

\* the introspection verifier failed after it had decoded the claims, and the
\* caching verifier passed the failure on
C24_Witness ==
    /\ built.verifier.kind = "introspection"
    /\ ret[Client].stage = "returned"
    /\ ret[Client].o.err
    /\ ret[Client].o.why = "token missing required scopes"
    /\ req[Client].verified = "token missing required scopes"
    /\ info[Client] = NoInfo

\* C30: no verification failure is retried in-band: one request calls the
\* configured verifier at most once, one CachingVerifier.Verify call calls the
\* wrapped verifier at most once, and one IntrospectionVerifier.Verify call
\* makes at most one introspection HTTP call.
C30_NoRetry ==
    \A p \in Procs :
        /\ entered[p].caching <= 1
        /\ entered[p].strategy <= entered[p].caching
        /\ ir[p].calls <= entered[p].strategy
        /\ (pc[p] = "idle" /\ req[p].verified \notin {"no", "ok"}) =>
              /\ resp[p] # <<>>
              /\ resp[p][Len(resp[p])].act = "deny"

\* a request whose introspection call failed in transport: one call, and the denial
C30_Witness ==
    /\ pc[Client] = "idle"
    /\ req[Client].verified = "introspection request failed"
    /\ entered[Client] = [caching |-> 1, strategy |-> 1]
    /\ ir[Client].calls = 1
    /\ resp[Client][1].status = 401

-----------------------------------------------------------------------------
(* Properties of the TokenInfo methods and the metadata, checked under    *)
(* SpecPure and SpecMeta                                                   *)

\* C25: for every TokenInfo and every list of required scopes,
\* HasAllScopes(required) is true if and only if each required scope is present
\* (case-sensitively) in TokenInfo.Scopes, whatever the order of either list;
\* for the empty required list it is true.
C25_HasAllScopes ==
    fn.name = "HasAllScopes" =>
        LET granted == fn.args[1]
            required == fn.args[2]
        IN  /\ fn.out = (Elems(required) \subseteq Elems(granted))
            /\ required = <<>> => fn.out

\* a scope granted in upper case does not stand for the required lower-case one
C25_Witness ==
    /\ fn.name = "HasAllScopes"
    /\ fn.args = << <<"mcp:read", "MCP:TOOLS">>, <<"mcp:tools", "mcp:read">> >>
    /\ ~fn.out

\* C26: HasAudience(a) is true if and only if some element of
\* TokenInfo.Audience equals a after one trailing slash is removed from both;
\* an audience given as a single string and as a one-element array of the
\* same string give the same result for every queried audience.
C26_HasAudience ==
    fn.name = "HasAudience" =>
        LET aud == fn.args[1]
            a == fn.args[2]
        IN  /\ fn.out = (\E e \in AudStrings(aud) : StripSlash(e) = StripSlash(a))
            /\ aud.t = "string" =>
                  fn.out = HasAudience(WithAudience(JArray(<<JString(aud.s)>>)), a)

\* the token's audience ends in a slash and the queried one does not: a match;
\* and a token's audience with two slashes does not match
C26_Witness ==
    /\ fn.name = "HasAudience"
    /\ fn.args = <<JScalar(JString("https://mcp.example.com/")), "https://mcp.example.com">>
    /\ fn.out
    /\ ~HasAudience(WithAudience(JScalar(JString("https://mcp.example.com//"))),
                    "https://mcp.example.com")

\* C27: for every Config the metadata document has resource =
\* ResourceServerURL, authorization_servers = the one-element list holding
\* Issuer, bearer_methods_supported = ["header"], and scopes_supported =
\* RequiredScopes when that list is not empty and the single scope mcp:tools
\* otherwise.
C27_BuildMetadata ==
    fn.name = "BuildMetadata" =>
        LET cfg == fn.args[1]
            m == fn.out
        IN  /\ m.Resource = cfg.ResourceServerURL
            /\ m.AuthorizationServers = <<cfg.Issuer>>
            /\ m.BearerMethodsSupported = <<"header">>
            /\ cfg.RequiredScopes # <<>> => m.ScopesSupported = cfg.RequiredScopes
            /\ cfg.RequiredScopes = <<>> => m.ScopesSupported = <<"mcp:tools">>

\* a Config with no required scopes: the default scope is published
C27_Witness ==
    /\ fn.name = "BuildMetadata"
    /\ fn.args[1].RequiredScopes = <<>>
    /\ fn.args[1].Issuer = "https://idp.example.com"
    /\ fn.out.ScopesSupported = <<"mcp:tools">>

\* the document of the Config, as JSON text: the members BuildMetadata sets
DocumentOf(cfg) ==
    LET scopes == IF cfg.RequiredScopes = <<>> THEN <<"mcp:tools">> ELSE cfg.RequiredScopes
        List(l) == "[" \o Join([i \in 1 .. Len(l) |-> "\"" \o l[i] \o "\""], ",") \o "]"
    IN  "{\"resource\":\"" \o cfg.ResourceServerURL \o "\""
        \o ",\"authorization_servers\":" \o List(<<cfg.Issuer>>)
        \o ",\"scopes_supported\":" \o List(scopes)
        \o ",\"bearer_methods_supported\":[\"header\"]"
        \o (IF cfg.ResourceName = "" THEN ""
            ELSE ",\"resource_name\":\"" \o cfg.ResourceName \o "\"")
        \o (IF cfg.ResourceDocumentation = "" THEN ""
            ELSE ",\"resource_documentation\":\"" \o cfg.ResourceDocumentation \o "\"")
        \o "}\n"

\* C28: the metadata handler accepts only GET: a GET returns the JSON document
\* with Cache-Control "public, max-age=3600", and every other method returns
\* 405 with an Allow: GET header and no metadata document.
C28_GetOnly ==
    mh.method # "" =>
        IF mh.method = "GET"
        THEN /\ mh.fx.status = 200
             /\ mh.fx.contentType = "application/json"
             /\ mh.fx.cacheControl = "public, max-age=3600"
             /\ mh.fx.body = DocumentOf(mh.cfg)
        ELSE /\ mh.fx.status = 405
             /\ mh.fx.allow = "GET"
             /\ mh.fx.body = "Method not allowed\n"
             /\ mh.fx.contentType # "application/json"

\* a POST, refused
C28_Witness ==
    /\ mh.method = "POST"
    /\ mh.fx.status = 405
    /\ mh.fx.allow = "GET"


-----------------------------------------------------------------------------
(* The TTL of CachingVerifier, checked under SpecTTL                       *)

\* the TTL that NewCachingVerifier was given
ConfiguredTTL == fn.args[1]

\* C29: NewCachingVerifier turns a configured TTL of zero or less into the 5
\* minute default and keeps every positive TTL as it is, so that no entry is
\* ever stored with an expiry computed from a TTL that is not positive.
C29_TTLNormalised ==
    fn.name = "NewCachingVerifier" =>
        /\ ConfiguredTTL <= 0 => ttl = FiveMinutes * TicksPerSec
        /\ ConfiguredTTL > 0 => ttl = ConfiguredTTL
        /\ fn.out.ttl = ttl
        /\ ttl > 0
        /\ \A t \in DOMAIN cache :
              \/ cache[t].expiresAt = cache[t].storedAt + ttl
              \/ /\ cache[t].info.ExpiresAt > 0
                 /\ cache[t].expiresAt = Unix(cache[t].info.ExpiresAt)
                 /\ cache[t].expiresAt < cache[t].storedAt + ttl

\* a verifier configured with a TTL of zero holds an entry that lives 5 minutes
C29_Witness ==
    /\ fn.name = "NewCachingVerifier"
    /\ ConfiguredTTL = 0
    /\ \E t \in DOMAIN cache :
          /\ cache[t].storedAt > 0
          /\ cache[t].expiresAt = cache[t].storedAt + FiveMinutes * TicksPerSec

-----------------------------------------------------------------------------
(* Cancellation of the request context, checked under SpecCancel           *)

\* the introspection call of request p was in flight with ctx cancelled and has
\* ended in this step
AbortedCall(p) == pc[p] = "iv_do" /\ cancelled[p] /\ pc'[p] # "iv_do"

\* the Verify call of the cache-wrapped verifier is entered in this step with a
\* ctx that is already cancelled
LoadCancelled(p) ==
    /\ pc[p] = "mw_verify" /\ ret[p].stage = "none" /\ cancelled[p]
    /\ ret'[p].stage # "none"

\* the first half of C31 alone: an introspection call that is in flight when the
\* context is cancelled ends with an error, which CachingVerifier.Verify receives
C31_IntrospectionAborted ==
    [][\A p \in Procs :
         AbortedCall(p) =>
            /\ ir'[p].out.transport = "error"
            /\ ret'[p].stage = "returned"
            /\ ret'[p].o.err
            /\ ret'[p].o.info = NoInfo]_vars

\* C31: cancellation of the request context aborts an in-flight introspection
\* call, which returns a verification error, and a Verify call of the
\* cache-wrapped verifier made with a cancelled context does not report a cached
\* positive.
C31_CancelHonoured ==
    [][\A p \in Procs :
         /\ AbortedCall(p) => (ret'[p].stage = "returned" /\ ret'[p].o.err)
         /\ LoadCancelled(p) => ret'[p].stage # "hit"]_vars

\* what the code does instead: with a fresh entry for the token, the call is
\* answered from the cache whatever the state of ctx
C31_HitWhenCancelled ==
    \E p \in Procs :
        /\ cancelled[p]
        /\ ret[p].stage = "hit"
        /\ req[p].verified = "ok"

-----------------------------------------------------------------------------
(* Ownership of TokenInfo, checked under SpecOwn                            *)

\* caller p assigns to its TokenInfo in this step
Writes(p) == held[p] # 0 /\ heap'[held[p]] # heap[held[p]]

\* C32: a TokenInfo returned by Verify is owned by its caller and entries are
\* immutable once stored: what one caller writes to the TokenInfo it received
\* changes neither the TokenInfo of any cache entry nor the TokenInfo any other
\* caller has received.
C32_CallerOwnsInfo ==
    [][\A p \in Procs :
         Writes(p) =>
            /\ \A t \in DOMAIN cache : heap'[cache[t].info] = heap[cache[t].info]
            /\ \A q \in Procs \ {p} :
                  held[q] # 0 => heap'[held[q]] = heap[held[q]]]_vars

\* what the code does instead: the entry and two callers hold one pointer, and
\* the write of one of them has been served to the other from the cache
C32_EditServedFromCache ==
    \E p, q \in Procs :
        /\ p # q
        /\ ev.kind = "hit"
        /\ ev.tok \in DOMAIN cache
        /\ held[p] = cache[ev.tok].info
        /\ held[q] = held[p]
        /\ ev.info.Scopes = <<"mcp:admin">>


-----------------------------------------------------------------------------
(* Identity of concurrent requests, checked under SpecShared                *)

\* what the strategy's Verify made of the claims it read for request p
StrategyResult(p) ==
    IF built.verifier.kind = "oidc"
    THEN OIDCResult(claimed[p], req[p].token, config)
    ELSE IntrospectionResult(ir[p].out, req[p].token, config)

\* the TokenInfo values that the protected handler of request p found in its
\* request context
ContextsRead(p) == {resp[p][k].ctx : k \in {j \in DOMAIN resp[p] : resp[p][j].act = "next"}}

\* C33: identity is request-scoped. Under any interleaving of concurrent requests
\* with different tokens, the TokenInfo a protected handler reads from its
\* request context is the one produced by verifying the token of that same
\* request: by the strategy in this request, or earlier and kept in the cache
\* under that exact token string, the only place shared between requests.
C33_RequestScoped ==
    /\ \A p \in Procs : \A c \in ContextsRead(p) :
          /\ c # NoInfo
          /\ c.Token = req[p].token
          /\ req[p].verified = "ok"
          /\ ret[p].stage \in {"hit", "returned"}
          /\ ret[p].stage = "returned" => c = StrategyResult(p).info
          /\ ret[p].stage = "hit" => c = ret[p].o.info
    /\ \A t \in DOMAIN cache : cache[t].info.Token = t

\* one request has reached its handler while another, with another token and
\* another TokenInfo, is between the strategy's return and its own handler
C33_Witness ==
    \E p, q \in Procs :
        /\ req[p].token # req[q].token
        /\ pc[p] = "idle"
        /\ ContextsRead(p) # {}
        /\ pc[q] = "cv_return"
        /\ ~ret[q].o.err
        /\ \A c \in ContextsRead(p) : c.Scopes # ret[q].o.info.Scopes
        /\ req[p].token \in DOMAIN cache



-----------------------------------------------------------------------------
(* The life of an entry, checked under SpecTTL                              *)

\* the entry for t is at or past its stored expiry
Expired(t) == t \in DOMAIN cache /\ now >= cache[t].expiresAt

\* C34: a Verify call that finds the entry of its token at or past its stored
\* expiry returns nothing from it: it deletes the entry and goes on to the
\* wrapped verifier. If that fails, the call returns the error and the cache has
\* no entry for the token; if it succeeds, the call stores a new entry for the
\* TokenInfo just returned, with an expiry computed at that moment.
C34_ExpiredEntryReverified ==
    [][\A p \in Procs :
         LET t == tok[p] IN
         /\ \A u \in Tokens :
               (pc[p] = "idle" /\ pc'[p] # "idle" /\ tok'[p] = u /\ Expired(u)) =>
                  /\ ev'.kind = "stale"
                  /\ pc'[p] = "cv_delete"
                  /\ cache' = cache
         /\ (pc[p] = "idle" /\ pc'[p] = "idle" /\ ev'.kind = "hit") => ~Expired(ev'.tok)
         /\ (pc[p] = "cv_delete" /\ pc'[p] # "cv_delete") =>
               /\ pc'[p] = "cv_verify"
               /\ t \notin DOMAIN cache'
               /\ cache' = MapDelete(cache, t)
         /\ (pc[p] = "cv_verify" /\ pc'[p] = "idle") =>
               /\ ev' = Ev("error", t, NoInfo)
               /\ t \notin DOMAIN cache'
         /\ (pc[p] = "cv_verify" /\ pc'[p] = "cv_store") =>
               /\ info'[p] \in TokenInfos(t)
               /\ cache' = cache
         /\ (pc[p] = "cv_store" /\ pc'[p] # "cv_store") =>
               /\ pc'[p] = "idle"
               /\ ev' = Ev("fresh", t, info[p])
               /\ cache'[t] = [info |-> info[p],
                               expiresAt |-> IF info[p].ExpiresAt > 0
                                                /\ Unix(info[p].ExpiresAt) < now + ttl
                                             THEN Unix(info[p].ExpiresAt)
                                             ELSE now + ttl,
                               storedAt |-> now]]_vars

\* an entry that outlived its expiry by a tick has just been found and removed,
\* and its token is on its way to the wrapped verifier
C34_Witness ==
    /\ ev.kind = "deleted"
    /\ pc[Client] = "cv_verify"
    /\ tok[Client] = ev.tok
    /\ ev.tok \notin DOMAIN cache
    /\ now > 1



-----------------------------------------------------------------------------
(* The age of what a hit returns, checked under SpecAge                     *)

\* the latest step was a hit; ev.tok is its token and now its instant
HitNow == ev.kind = "hit" /\ ev.tok \in DOMAIN cache /\ ev.tok \in DOMAIN verifiedAt

\* C37 as stated: every hit returns a TokenInfo whose wrapped verification
\* returned less than the TTL earlier, so that a token revoked after its last
\* successful verification is accepted from the cache for at most one TTL after
\* that verification.
C37_HitWithinTTLOfVerification ==
    HitNow => now - verifiedAt[ev.tok] < ttl

\* C37 as amended: ... whose entry was stored less than the TTL earlier, the
\* store coming no sooner than the return of the wrapped verification: the
\* TTL runs from time.Now() of line 316, not from the verification.
C37_HitWithinTTLOfStore ==
    HitNow =>
        /\ ev.info = cache[ev.tok].info
        /\ now - cache[ev.tok].storedAt < ttl
        /\ verifiedAt[ev.tok] <= cache[ev.tok].storedAt

\* a hit in the last tick of the entry's TTL, a full TTL or more after the
\* verification returned
C37_Witness ==
    /\ HitNow
    /\ now = cache[ev.tok].storedAt + ttl - 1
    /\ now > cache[ev.tok].storedAt
    /\ now >= verifiedAt[ev.tok] + ttl



-----------------------------------------------------------------------------
(* Concurrent calls on one token, checked under Spec                        *)

\* caller p executes v.cache.Delete(token) in this step
Evicts(p) == pc[p] = "cv_delete" /\ pc'[p] # "cv_delete"

\* C35: under concurrent Verify calls for one token, the eviction of an expired
\* entry removes only the expired entry the evicting call read, never a fresh
\* entry that another call stored between that read and the delete.
C35_EvictsOnlyExpired ==
    [][\A p \in Procs :
         (Evicts(p) /\ tok[p] \in DOMAIN cache) => now >= cache[tok[p]].expiresAt]_vars



\* caller p starts a Verify call in this step that does not end at its Load
Starts(p, t) == pc[p] = "idle" /\ pc'[p] # "idle" /\ tok'[p] = t

\* C36: concurrent Verify calls for one uncached token are not coalesced. Each
\* goes to the wrapped verifier, whoever else is already there, and each Store
\* replaces what is stored: the last one wins. Yet every entry for a token t
\* holds a TokenInfo that a successful wrapped verification of t returned, and
\* expires no later than that TokenInfo's ExpiresAt when ExpiresAt > 0.
C36_NotCoalescedLastStoreWins ==
    [][/\ \A p \in Procs, t \in Tokens :
             (Starts(p, t) /\ t \notin DOMAIN cache) =>
                 /\ pc'[p] = "cv_verify"
                 /\ cache' = cache
       /\ \A p \in Procs :
             (pc[p] = "cv_store" /\ pc'[p] # "cv_store") =>
                 /\ info[p] \in TokenInfos(tok[p])
                 /\ cache'[tok[p]].info = info[p]
                 /\ cache'[tok[p]].storedAt = now
       /\ \A t \in DOMAIN cache' :
             /\ cache'[t].info \in TokenInfos(t)
             /\ cache'[t].info.ExpiresAt > 0 =>
                   cache'[t].expiresAt <= cache'[t].info.ExpiresAt * TicksPerSec
      ]_vars

\* two calls for one token went to the wrapped verifier and got different
\* TokenInfos; one has stored its own, the other is about to replace it
C36_Witness ==
    \E p, q \in Procs :
        /\ p # q
        /\ pc[p] = "idle"
        /\ pc[q] = "cv_store"
        /\ tok[q] \in DOMAIN cache
        /\ ev = Ev("fresh", tok[q], cache[tok[q]].info)
        /\ cache[tok[q]].info # info[q]
        /\ info[q].ExpiresAt > 0



-----------------------------------------------------------------------------
(* Discovery under a request's context, checked under SpecInit              *)

\* C38: discovery runs under the context of the Verify call that executes the
\* one-shot initializer. If that context is cancelled while the discovery is
\* under way, the discovery fails, its error is stored for good and is never
\* retried, and every Verify call that comes out of init afterwards returns
\* that error, whether its own context is live or not.
C38_CancelledDiscoverySticks ==
    [][\A p \in Procs :
         /\ (pc[p] = "ov_discover" /\ pc'[p] # "ov_discover" /\ cancelled[p]) =>
               /\ initError' = "failed"
               /\ verifier' = "nil"
               /\ once' = "done"
         /\ initError = "failed" =>
               /\ initError' = "failed"
               /\ once' = "done"
               /\ discoveries' = discoveries
         /\ (initError = "failed" /\ pc[p] = "ov_inited" /\ pc'[p] # "ov_inited") =>
               /\ req'[p].verified = DiscoveryError
               /\ Denied(resp'[p])]_vars

\* after the one discovery, a request whose context was cancelled and a request
\* whose context is live have both been refused with the stored error
C38_Witness ==
    \E p, q \in Procs :
        /\ p # q
        /\ initError = "failed"
        /\ discoveries = 1
        /\ cancelled[q]
        /\ req[q].verified = DiscoveryError
        /\ ~cancelled[p]
        /\ pc[p] = "idle"
        /\ req[p].verified = DiscoveryError



\* caller p removes or replaces the entry of its token in this step
Touches(p, t) ==
    /\ tok[p] = t
    /\ \/ pc[p] = "cv_delete" /\ pc'[p] = "cv_verify"
       \/ pc[p] = "cv_store" /\ pc'[p] = "idle"

\* C39: an entry for token t is removed or replaced only by a Verify call for
\* t. Calls for other tokens, failed verifications and the passage of time
\* leave it as it is: an expired entry whose token is not presented again
\* stays in the map.
C39_EntryLeftAlone ==
    [][/\ \A t \in DOMAIN cache :
             (t \notin DOMAIN cache' \/ cache'[t] # cache[t]) =>
                 \E p \in Procs : Touches(p, t)
       /\ now' # now => cache' = cache
       /\ ev'.kind = "error" => cache' = cache
      ]_vars

\* at the end of the clock the map still holds an entry that expired two ticks
\* ago or more, although a call for another token has stored its entry since
C39_Witness ==
    \E t, u \in DOMAIN cache :
        /\ t # u
        /\ now = MaxTime
        /\ now >= cache[t].expiresAt + 2
        /\ cache[u].storedAt > cache[t].expiresAt
        /\ \A p \in Procs : tok[p] # t


====
